---- MODULE Spec2Model ----
(***************************************************************************)
(* Model of the restify request pipeline: permission gate, filter mapper,  *)
(* lifecycle hook chain, endpoint handlers and the Set reconciliation.     *)
(* One request is served by one Context (NewContext), and one handler      *)
(* action runs the whole handler on it.                                    *)
(***************************************************************************)
EXTENDS Integers, Sequences, FiniteSets, TLC

(* ---------------------------------------------------------------- bounds *)
MaxId == 2          \* primary keys range over 1..MaxId
MaxVal == 3         \* column owner ranges over 0..MaxVal (0 is the Go zero value)
MaxBatch == 2       \* longest array body (BatchCreate, Set)
MaxClauses == 2     \* most filter clauses in one query string
IntBits == 12       \* width of int in the model (two's complement)

(* ------------------------------------------------------ program constants *)
StatusOK == 200
StatusBadRequest == 400
StatusForbidden == 403
StatusNotFound == 404
StatusInternalServerError == 500
StatusPreconditionFailed == 412

VARIABLES
    store,      \* rows of the model's table
    pre,        \* rows of the table when the current request entered
    pc,         \* "ready": Context built, handler not run; "done": handler returned
    op,         \* name of the handler that served the request ("" before)
    ctx,        \* the request's Context: Conditions, override, Code, Response
    ret,        \* the *Error the handler returned (NoError for nil)
    log,        \* events of the request: permission calls, hooks, store calls
    inp,        \* the parts of the request the properties refer to
    pagination, \* a Pagination value that application code drives by itself
    resources,  \* the registry of resources, by table name
    resource,   \* the *Resource the last UseModel call returned
    sent,       \* what Endpoint.handler wrote to the client last
    inflight,   \* the requests served concurrently and their Contexts
    globals,    \* package-level values: predefined errors, callback lists
    sql         \* the SQL text of the query built last, piece by piece

vars == <<store, pre, pc, op, ctx, ret, log, inp, pagination, resources, resource, sent, inflight, globals, sql>>

(* ------------------------------------------------------------ data model *)
\* The registered model: primary key id, plain column owner, column name
\* (whose type may implement RestFilter), soft-delete marker deleted.
ColumnNames == {"id", "owner", "name", "deleted"}

Ids == 1..MaxId
OwnerVals == 0..MaxVal
NameVals == 0..1
FlagVals == 0..1

Objects == [id : 0..MaxId, owner : OwnerVals, name : NameVals, deleted : FlagVals]
ZeroObject == [id |-> 0, owner |-> 0, name |-> 0, deleted |-> 0]
Rows == {o \in Objects : o.id # 0}

UniqueIds(rows) == \A r1, r2 \in rows : r1.id = r2.id => r1 = r2

IdsOf(rows) == {r.id : r \in rows}
RowById(rows, i) == CHOOSE r \in rows : r.id = i

Min(S) == CHOOSE x \in S : \A y \in S : x <= y

\* a slice of rows in primary-key order, as a query returns it
RECURSIVE SortById(_)
SortById(rows) ==
    IF rows = {} THEN <<>>
    ELSE LET m == Min(IdsOf(rows)) IN
         <<RowById(rows, m)>> \o SortById({r \in rows : r.id # m})

Range(s) == {s[i] : i \in 1..Len(s)}

(* ---------------------------------------------------------------- errors *)
Err(code, msg) == [Code |-> code, Message |-> msg]
NoError == Err(0, "")
ErrorObjectNotExist == Err(StatusNotFound, "object does not exist")
ErrorColumnNotExist == Err(StatusInternalServerError, "column does not exist")
ErrorPermissionDenied == Err(StatusForbidden, "permission denied")
ErrorUnsafe == Err(StatusBadRequest, "unsafe request")
ErrorPanic == Err(StatusInternalServerError, "panic")

\* Context.Error
ContextError(msg, code) == Err(code, msg)

(* --------------------------------------------------------------- events *)
NoWhere == {}
Ev(kind, name, obj, ok, where) ==
    [kind |-> kind, name |-> name, obj |-> obj, ok |-> ok, where |-> where]
PermEv(name, allow) == Ev("perm", name, ZeroObject, allow, NoWhere)
HookEv(name, obj, ok) == Ev("hook", name, obj, ok, NoWhere)
StoreEv(name, obj, ok, where) == Ev("store", name, obj, ok, where)

(* -------------------------------------------------------------- Context *)
NoOverride == ZeroObject
NewCtx ==
    [Conditions |-> <<>>,
     override |-> NoOverride,
     hasOverride |-> FALSE,
     Code |-> 0,
     Success |-> TRUE,
     Error |-> "",
     ValidationError |-> <<>>,
     Data |-> <<>>,
     Total |-> 0, TotalPages |-> 0, Size |-> 0, Offset |-> 0, Page |-> 0]

Condition(field, o, value) == [Field |-> field, Op |-> o, Value |-> value]

\* Context.SetCondition
SetCondition(c, cond) == [c EXCEPT !.Conditions = Append(@, cond)]

\* Context.Override
Override(c, value) == [c EXCEPT !.override = value, !.hasOverride = TRUE]

\* Context.applyOverrides: non-zero fields of the override replace the object's
applyOverrides_skip(c, obj) == obj
applyOverrides(c, obj) ==
    IF ~c.hasOverride THEN obj
    ELSE [f \in ColumnNames |->
            IF c.override[f] # 0 THEN c.override[f] ELSE obj[f]]

\* Context.AddValidationErrors
AddValidationErrors(c, errs) ==
    IF Len(errs) > 0
    THEN [c EXCEPT !.Success = FALSE,
                   !.Code = StatusPreconditionFailed,
                   !.ValidationError = @ \o errs]
    ELSE c

\* Context.HandleError
HandleError(c, error) ==
    IF error # NoError
    THEN [c EXCEPT !.Error = error.Message, !.Success = FALSE, !.Code = error.Code]
    ELSE c

(* ------------------------------------------- user code of one request *)
\* What the application's own code does when restify calls it: the
\* permission functions, the model's hooks, the store's failures.
HookNames == {"OnBeforeCreate", "ValidateCreate", "OnBeforeSave", "OnBeforeUpdate",
              "ValidateUpdate", "OnBeforeDelete", "OnAfterCreate", "OnAfterUpdate",
              "OnAfterSave", "OnAfterDelete", "OnAfterGet", "OnBeforeGet"}

DefaultEnv ==
    [modelPerm |-> "absent",    \* the model's RestPermission: "absent", "allow", "deny"
     globalPerm |-> "absent",   \* the default permission handler, likewise
     conds |-> <<>>,            \* Conditions the permission function appends
     over |-> ZeroObject,       \* value the permission function passes to Override
     fail |-> "none",           \* the model hook that returns an error
     mutHook |-> "none",        \* the model hook that assigns owner := mutVal
     mutVal |-> 0,
     noteHook |-> "none",       \* the model hook that calls AddValidationErrors
                                \* and returns nil
     dbFail |-> 0,              \* the n-th store write of the request fails (0: none)
     restFilter |-> FALSE,      \* the type of column name implements RestFilter
     restFilterAdds |-> FALSE,  \* that RestFilter adds its predicate to the query
     soft |-> FALSE]            \* the model has a Delete(bool) method

\* A filter clause of the query string, as filterRegEx extracts it.
Clause(column, condition, value) ==
    [column |-> column, condition |-> condition, value |-> value]

DefaultRq ==
    [body |-> ZeroObject,       \* JSON object body (zero field: absent)
     zeroed |-> {},             \* fields the JSON object gives a zero value to
     bodies |-> <<>>,           \* JSON array body
     bodyOk |-> TRUE,           \* BodyParser succeeds
     qs |-> <<>>,               \* filter clauses of the query string
     unsafe |-> FALSE,          \* query parameter unsafe is set
     return |-> FALSE,          \* query parameter return is set
     pk |-> 0,                  \* primary key path parameter
     method |-> "PATCH",
     offset |-> 0,
     limit |-> 0,
     page |-> 0,
     size |-> 0,
     fields |-> "",             \* query parameter fields (Aggregate)
     group_by |-> ""]

(* --------------------------------------------------------- query builder *)
\* A gorm query under construction: its WHERE predicates.
NilQuery == [nil |-> TRUE, where |-> {}, offset |-> 0, limit |-> 0]
NewQuery == [nil |-> FALSE, where |-> {}, offset |-> 0, limit |-> 0]

Pred(col, o, val, src) == [col |-> col, op |-> o, val |-> val, src |-> src]
Where(query, p) == [query EXCEPT !.where = @ \cup {p}]

\* filterConditions
filterConditions ==
    [eq |-> "=", neq |-> "!=", gt |-> ">", lt |-> "<", gte |-> ">=", lte |-> "<=",
     in |-> "IN", between |-> "BETWEEN", contains |-> "LIKE",
     isnull |-> "IS NULL", notnull |-> "IS NOT NULL"]

\* the predicate a forced Condition becomes
CondPred(cond) == Pred(cond.Field, cond.Op, <<cond.Value>>, "forced")

RECURSIVE AddConditions(_, _, _)
AddConditions(query, conds, i) ==
    IF i > Len(conds) THEN query
    ELSE AddConditions(Where(query, CondPred(conds[i])), conds, i + 1)

\* generic.Parse(member).Time() in the between branch: the members of a
\* value are numbers, read as points in time; NotATime stands for a member
\* that is no date
NotATime == 0 - 1
ParsesAsTime(member) == member # NotATime

\* filterMapper: the loop over the clauses, then the forced Conditions
RECURSIVE filterMapperFrom(_, _, _, _, _)
filterMapperFrom(filters, i, c, query, env) ==
    IF i > Len(filters)
    THEN [query |-> AddConditions(query, c.Conditions, 1), err |-> NoError]
    ELSE
    LET filter == filters[i]
        user(o) == Pred(filter.column, o, filter.value, "user")
    IN
    IF filter.column \notin ColumnNames
    THEN [query |-> NilQuery, err |-> ErrorColumnNotExist]
    ELSE IF env.restFilter /\ filter.column = "name"
    THEN [query |-> IF env.restFilterAdds
                    THEN Where(query, Pred(filter.column, filter.condition,
                                           filter.value, "custom"))
                    ELSE query,
          err |-> NoError]
    ELSE IF filter.condition \in {"notnull", "isnull"}
    THEN filterMapperFrom(filters, i + 1, c, Where(query, user(filter.condition)), env)
    ELSE IF filter.condition \in {"contains", "notin", "in", "search"}
    THEN filterMapperFrom(filters, i + 1, c, Where(query, user(filter.condition)), env)
    ELSE IF filter.condition = "between"
    THEN IF Len(filter.value) # 2
              \/ ~ParsesAsTime(filter.value[1]) \/ ~ParsesAsTime(filter.value[2])
         THEN [query |-> query,
               err |-> Err(StatusBadRequest, "invalid filter value for between operator")]
         ELSE filterMapperFrom(filters, i + 1, c, Where(query, user("between")), env)
    ELSE IF filter.condition \in DOMAIN filterConditions
    THEN filterMapperFrom(filters, i + 1, c, Where(query, user(filter.condition)), env)
    ELSE [query |-> query,
          err |-> Err(StatusInternalServerError, "invalid filter condition")]

filterMapper(filters, c, query, env) == filterMapperFrom(filters, 1, c, query, env)

\* Context.ApplyFilters: filterMapper, then offset and limit on what it returned
ApplyFilters(c, query, rq, env) ==
    LET m == filterMapper(rq.qs, c, query, env) IN
    IF m.query.nil /\ (rq.offset > 0 \/ rq.limit > 0)
    THEN [query |-> NilQuery, err |-> ErrorPanic]
    ELSE [query |-> [m.query EXCEPT
                        !.offset = IF rq.offset > 0 THEN rq.offset ELSE @,
                        !.limit = IF rq.limit > 0 THEN rq.limit ELSE @],
          err |-> m.err]

\* does row r satisfy predicate p (columns are integers, never NULL)
Match(r, p) ==
    LET x == r[p.col]
        v == p.val
    IN CASE p.op \in {"eq", "=", "contains", "search"} -> Len(v) = 1 /\ x = v[1]
         [] p.op \in {"neq", "!="} -> Len(v) = 1 /\ x # v[1]
         [] p.op \in {"gt", ">"} -> Len(v) = 1 /\ x > v[1]
         [] p.op \in {"lt", "<"} -> Len(v) = 1 /\ x < v[1]
         [] p.op \in {"gte", ">="} -> Len(v) = 1 /\ x >= v[1]
         [] p.op \in {"lte", "<="} -> Len(v) = 1 /\ x <= v[1]
         [] p.op = "in" -> x \in Range(v)
         [] p.op = "notin" -> x \notin Range(v)
         [] p.op = "between" -> Len(v) = 2 /\ v[1] <= x /\ x <= v[2]
         [] p.op = "isnull" -> FALSE
         [] p.op = "notnull" -> TRUE
         [] OTHER -> FALSE

\* the rows a query selects
Select(rows, query) == {r \in rows : \A p \in query.where : Match(r, p)}

\* the handlers' unsafe guard: stmt.Clauses["WHERE"].Expression == nil
NoWhereClause_never(query) == FALSE
NoWhereClause(query) == query.where = {}

(* ------------------------------------------------------- permission gate *)
\* the side effects of the permission function that runs
PermEffects(c, env) ==
    LET RECURSIVE conds(_, _)
        conds(cc, i) == IF i > Len(env.conds) THEN cc
                        ELSE conds(SetCondition(cc, env.conds[i]), i + 1)
        c1 == conds(c, 1)
    IN IF env.over # ZeroObject THEN Override(c1, env.over) ELSE c1

\* Context.RestPermission: [allow, c, log]
RestPermission_both(c, lg, env) ==
    IF env.modelPerm # "absent" /\ env.globalPerm # "absent"
    THEN [allow |-> env.modelPerm = "allow" /\ env.globalPerm = "allow",
          c |-> PermEffects(c, env),
          log |-> lg \o <<PermEv("model", env.modelPerm = "allow"),
                          PermEv("global", env.globalPerm = "allow")>>]
    ELSE IF env.modelPerm # "absent"
    THEN [allow |-> env.modelPerm = "allow", c |-> PermEffects(c, env),
          log |-> Append(lg, PermEv("model", env.modelPerm = "allow"))]
    ELSE IF env.globalPerm # "absent"
    THEN [allow |-> env.globalPerm = "allow", c |-> PermEffects(c, env),
          log |-> Append(lg, PermEv("global", env.globalPerm = "allow"))]
    ELSE [allow |-> TRUE, c |-> c, log |-> lg]
RestPermission_open(c, lg, env) ==
    [RestPermission_both(c, lg, env) EXCEPT !.allow = TRUE]
RestPermission(c, lg, env) ==
    IF env.modelPerm # "absent"
    THEN [allow |-> env.modelPerm = "allow",
          c |-> PermEffects(c, env),
          log |-> Append(lg, PermEv("model", env.modelPerm = "allow"))]
    ELSE IF env.globalPerm # "absent"
    THEN [allow |-> env.globalPerm = "allow",
          c |-> PermEffects(c, env),
          log |-> Append(lg, PermEv("global", env.globalPerm = "allow"))]
    ELSE [allow |-> TRUE, c |-> c, log |-> lg]

(* ------------------------------------------------------ lifecycle hooks *)
\* A hook chain works on h = [obj, c, log, err]: the object the callbacks get
\* by pointer, the Context, the event log, and the error returned ("" for nil).
HookState(obj, c, lg) == [obj |-> obj, c |-> c, log |-> lg, err |-> ""]

\* one method of the model, called through the type test of registerHooks
ModelHook(name, h, env) ==
    LET o == IF env.mutHook = name THEN [h.obj EXCEPT !.owner = env.mutVal] ELSE h.obj
        failed == env.fail = name
        noted == IF env.noteHook = name THEN AddValidationErrors(h.c, <<name>>) ELSE h.c
    IN [obj |-> o, c |-> noted,
        log |-> Append(h.log, HookEv(name, o, ~failed)),
        err |-> IF failed THEN name ELSE ""]

\* validation.Struct on the model's tags: owner is required and well-formed
\* (the value MaxVal is malformed), name is required
Struct(obj) ==
    (IF obj.owner = 0 \/ obj.owner = MaxVal THEN <<"owner">> ELSE <<>>)
    \o (IF obj.name = 0 THEN <<"name">> ELSE <<>>)

\* validation.StructNonZeroFields: the same tags on the non-zero fields only
StructNonZeroFields(obj) ==
    IF obj.owner = MaxVal THEN <<"owner">> ELSE <<>>

MessageValidationFailed == "validation failed"

\* Context.Validate
Validate(h) ==
    LET errs == Struct(h.obj) IN
    IF Len(errs) > 0
    THEN [h EXCEPT !.c = AddValidationErrors(h.c, errs),
                   !.log = Append(@, HookEv("Validate", h.obj, FALSE)),
                   !.err = MessageValidationFailed]
    ELSE [h EXCEPT !.log = Append(@, HookEv("Validate", h.obj, TRUE))]

\* Context.ValidateNonZeroFields
ValidateNonZeroFields(h) ==
    LET errs == StructNonZeroFields(h.obj) IN
    IF Len(errs) > 0
    THEN [h EXCEPT !.c = AddValidationErrors(h.c, errs),
                   !.log = Append(@, HookEv("Validate", h.obj, FALSE)),
                   !.err = MessageValidationFailed]
    ELSE [h EXCEPT !.log = Append(@, HookEv("Validate", h.obj, TRUE))]

\* the callbacks registerHooks appends to the global lists
Callback(cb, h, env) ==
    CASE cb = "OnBeforeCreate" ->
            LET h1 == ModelHook("OnBeforeCreate", h, env) IN
            IF h1.err # "" THEN h1 ELSE
            LET h2 == ModelHook("ValidateCreate", h1, env) IN
            IF h2.err # "" THEN h2 ELSE Validate(h2)
      [] cb = "OnBeforeUpdate" ->
            LET h1 == ModelHook("OnBeforeUpdate", h, env) IN
            IF h1.err # "" THEN h1 ELSE
            LET h2 == ModelHook("ValidateUpdate", h1, env) IN
            IF h2.err # "" THEN h2 ELSE ValidateNonZeroFields(h2)
      [] OTHER -> ModelHook(cb, h, env)

_onBeforeCreateCallbacks == <<"OnBeforeCreate">>
_onBeforeUpdateCallbacks == <<"OnBeforeUpdate">>
_onBeforeSaveCallbacks == <<"OnBeforeSave">>
_onBeforeDeleteCallbacks == <<"OnBeforeDelete">>
_onAfterCreateCallbacks == <<"OnAfterCreate">>
_onAfterUpdateCallbacks == <<"OnAfterUpdate">>
_onAfterSaveCallbacks == <<"OnAfterSave">>
_onAfterDeleteCallbacks == <<"OnAfterDelete">>
_onAfterGetCallbacks == <<"OnAfterGet">>

\* callHook: the callbacks in list order, stopping at the first error
RECURSIVE callHookFrom(_, _, _, _)
callHookFrom(h, env, callbackList, i) ==
    IF i > Len(callbackList) THEN h
    ELSE LET r == Callback(callbackList[i], h, env) IN
         IF r.err # "" THEN r ELSE callHookFrom(r, env, callbackList, i + 1)

callHook(h, env, callbackList) == callHookFrom(h, env, callbackList, 1)

\* two lists one after the other, as the call*Hook functions run them;
\* the result's err is the *Error (NoError for nil)
TwoLists_noStop(h, env, first, second) ==
    LET r1 == callHook(h, env, first)
        r2 == callHook([r1 EXCEPT !.err = ""], env, second)
    IN IF r1.err # ""
       THEN [r2 EXCEPT !.err = ContextError(r1.err, StatusInternalServerError)]
       ELSE IF r2.err # ""
       THEN [r2 EXCEPT !.err = ContextError(r2.err, StatusInternalServerError)]
       ELSE [r2 EXCEPT !.err = NoError]
TwoLists_swapped(h, env, first, second) ==
    LET r1 == callHook(h, env, second) IN
    IF r1.err # ""
    THEN [r1 EXCEPT !.err = ContextError(r1.err, StatusInternalServerError)]
    ELSE LET r2 == callHook(r1, env, first) IN
         IF r2.err # ""
         THEN [r2 EXCEPT !.err = ContextError(r2.err, StatusInternalServerError)]
         ELSE [r2 EXCEPT !.err = NoError]
TwoLists(h, env, first, second) ==
    LET r1 == callHook(h, env, first) IN
    IF r1.err # ""
    THEN [r1 EXCEPT !.err = ContextError(r1.err, StatusInternalServerError)]
    ELSE LET r2 == callHook(r1, env, second) IN
         IF r2.err # ""
         THEN [r2 EXCEPT !.err = ContextError(r2.err, StatusInternalServerError)]
         ELSE [r2 EXCEPT !.err = NoError]

callBeforeCreateHook(obj, c, lg, env) ==
    TwoLists(HookState(obj, c, lg), env, _onBeforeCreateCallbacks, _onBeforeSaveCallbacks)

callBeforeUpdateHook(obj, c, lg, env) ==
    TwoLists(HookState(obj, c, lg), env, _onBeforeUpdateCallbacks, _onBeforeSaveCallbacks)

callBeforeDeleteHook(obj, c, lg, env) ==
    TwoLists(HookState(obj, c, lg), env, _onBeforeDeleteCallbacks, <<>>)

callAfterCreateHook(obj, c, lg, env) ==
    TwoLists(HookState(obj, c, lg), env, _onAfterCreateCallbacks, _onAfterSaveCallbacks)

callAfterUpdateHook(obj, c, lg, env) ==
    TwoLists(HookState(obj, c, lg), env, _onAfterUpdateCallbacks, _onAfterSaveCallbacks)

callAfterDeleteHook(obj, c, lg, env) ==
    TwoLists(HookState(obj, c, lg), env, _onAfterDeleteCallbacks, <<>>)

callAfterGetHook(obj, c, lg, env) ==
    TwoLists(HookState(obj, c, lg), env, _onAfterGetCallbacks, <<>>)

(* ------------------------------------------------------------ the store *)
\* The gorm calls of the handlers on a table of rows keyed by id.  A write
\* statement is logged as a "store" event; every row it wrote or removed is
\* logged after it as a "row" event.
WriteNames == {"Create", "Save", "Updates", "Delete"}
RowEv(name, obj) == Ev("row", name, obj, TRUE, NoWhere)

NWrites(lg) ==
    Cardinality({i \in 1..Len(lg) : lg[i].kind = "store" /\ lg[i].name \in WriteNames})

\* the store makes this write statement fail
WriteFails(lg, env) == env.dbFail = NWrites(lg) + 1

StoreError == ContextError("store error", StatusInternalServerError)

\* INSERT of one row: a zero id is assigned by the table, a used id is refused
InsertRow(st, obj) ==
    LET free == Ids \ IdsOf(st) IN
    IF obj.id = 0
    THEN IF free = {} THEN [ok |-> FALSE, store |-> st, obj |-> obj]
         ELSE LET o == [obj EXCEPT !.id = Min(free)] IN
              [ok |-> TRUE, store |-> st \cup {o}, obj |-> o]
    ELSE IF obj.id \in IdsOf(st) THEN [ok |-> FALSE, store |-> st, obj |-> obj]
    ELSE [ok |-> TRUE, store |-> st \cup {obj}, obj |-> obj]

\* dbo.Create(ptr) of one object
dbCreate(st, lg, obj, env) ==
    LET r == InsertRow(st, obj) IN
    IF WriteFails(lg, env) \/ ~r.ok
    THEN [ok |-> FALSE, store |-> st, obj |-> obj,
          log |-> Append(lg, StoreEv("Create", obj, FALSE, NoWhere))]
    ELSE [ok |-> TRUE, store |-> r.store, obj |-> r.obj,
          log |-> lg \o <<StoreEv("Create", r.obj, TRUE, NoWhere), RowEv("Create", r.obj)>>]

\* dbo.Save(ptr): every column written to the row of ptr's key; inserted when
\* the key is zero or matches no row
dbSave(st, lg, obj, env) ==
    IF WriteFails(lg, env)
    THEN [ok |-> FALSE, store |-> st, obj |-> obj,
          log |-> Append(lg, StoreEv("Save", obj, FALSE, NoWhere))]
    ELSE IF obj.id # 0 /\ obj.id \in IdsOf(st)
    THEN [ok |-> TRUE, store |-> {r \in st : r.id # obj.id} \cup {obj}, obj |-> obj,
          log |-> lg \o <<StoreEv("Save", obj, TRUE, NoWhere), RowEv("Save", obj)>>]
    ELSE LET r == InsertRow(st, obj) IN
         IF ~r.ok
         THEN [ok |-> FALSE, store |-> st, obj |-> obj,
               log |-> Append(lg, StoreEv("Save", obj, FALSE, NoWhere))]
         ELSE [ok |-> TRUE, store |-> r.store, obj |-> r.obj,
               log |-> lg \o <<StoreEv("Save", r.obj, TRUE, NoWhere), RowEv("Save", r.obj)>>]

\* the row after an UPDATE that sets the non-zero fields of upd (key excluded)
Patch_none(row, upd) == row
Patch(row, upd) ==
    [f \in ColumnNames |-> IF f # "id" /\ upd[f] # 0 THEN upd[f] ELSE row[f]]

\* Updates(ptr) on a query: UPDATE ... SET <non-zero fields of upd> over the
\* selected rows, in primary-key order for the log
dbUpdates(st, lg, rows, upd, where, env) ==
    LET hit == SortById(rows)
        new == {Patch(r, upd) : r \in rows}
    IN IF WriteFails(lg, env)
       THEN [ok |-> FALSE, store |-> st,
             log |-> Append(lg, StoreEv("Updates", upd, FALSE, where))]
       ELSE [ok |-> TRUE, store |-> (st \ rows) \cup new,
             log |-> lg \o <<StoreEv("Updates", upd, TRUE, where)>>
                        \o [i \in 1..Len(hit) |-> RowEv("Updates", Patch(hit[i], upd))]]

\* Delete(ptr) on a query: DELETE over the selected rows
dbDelete(st, lg, rows, obj, where, env) ==
    LET hit == SortById(rows) IN
    IF WriteFails(lg, env)
    THEN [ok |-> FALSE, store |-> st,
          log |-> Append(lg, StoreEv("Delete", obj, FALSE, where))]
    ELSE [ok |-> TRUE, store |-> st \ rows,
          log |-> lg \o <<StoreEv("Delete", obj, TRUE, where)>>
                     \o [i \in 1..Len(hit) |-> RowEv("Delete", hit[i])]]

\* a read (Find, Take, Count, Scan) of a query
dbRead(lg, name, query) == Append(lg, StoreEv(name, ZeroObject, TRUE, query.where))

PkPred(v) == Pred("id", "=", <<v>>, "pk")

(* ------------------------------------------------------------- handlers *)
\* What a handler leaves behind: the table, the Context, the log, its *Error.
R(st, c, lg, err) == [store |-> st, c |-> c, log |-> lg, err |-> err]

ParseError(code) == ContextError("body parse error", code)

\* Context.FindByPrimaryKey
FindByPrimaryKey(st, c, lg, input, rq, env) ==
    LET v == IF rq.pk # 0 THEN rq.pk ELSE input.id
        m == filterMapper(rq.qs, c, NewQuery, env)
    IN IF m.query.nil
       THEN [found |-> FALSE, obj |-> input, log |-> lg, err |-> ErrorPanic]
       ELSE LET q == Where(m.query, PkPred(v))
                rows == Select(st, q)
            IN [found |-> rows # {},
                obj |-> IF rows # {} THEN RowById(rows, Min(IdsOf(rows))) ELSE input,
                log |-> dbRead(lg, "Take", q),
                err |-> m.err]

\* Handler.ModelInfo
ModelInfo(st, rq, env) ==
    LET p == RestPermission(NewCtx, <<>>, env) IN
    IF ~p.allow THEN R(st, p.c, p.log, ErrorPermissionDenied)
    ELSE R(st, p.c, p.log, NoError)

\* Handler.Create
Create_writeFirst(st, rq, env) ==
    IF ~rq.bodyOk THEN R(st, NewCtx, <<>>, ParseError(StatusBadRequest)) ELSE
    LET p == RestPermission(NewCtx, <<>>, env) IN
    IF ~p.allow THEN R(st, p.c, p.log, ErrorPermissionDenied) ELSE
    LET w == dbCreate(st, p.log, applyOverrides(p.c, rq.body), env) IN
    IF ~w.ok THEN R(st, p.c, w.log, StoreError) ELSE
    LET b == callBeforeCreateHook(w.obj, p.c, w.log, env) IN
    IF b.err # NoError THEN R(w.store, b.c, b.log, b.err) ELSE
    LET a == callAfterCreateHook(b.obj, b.c, b.log, env) IN
    IF a.err # NoError THEN R(w.store, a.c, a.log, a.err) ELSE
    R(w.store, [a.c EXCEPT !.Data = <<a.obj>>], a.log, NoError)
Create(st, rq, env) ==
    IF ~rq.bodyOk THEN R(st, NewCtx, <<>>, ParseError(StatusBadRequest)) ELSE
    LET p == RestPermission(NewCtx, <<>>, env) IN
    IF ~p.allow THEN R(st, p.c, p.log, ErrorPermissionDenied) ELSE
    LET b == callBeforeCreateHook(rq.body, p.c, p.log, env) IN
    IF b.err # NoError THEN R(st, b.c, b.log, b.err) ELSE
    LET w == dbCreate(st, b.log, applyOverrides(b.c, b.obj), env) IN
    IF ~w.ok THEN R(st, b.c, w.log, StoreError) ELSE
    LET a == callAfterCreateHook(w.obj, b.c, w.log, env) IN
    IF a.err # NoError THEN R(w.store, a.c, a.log, a.err) ELSE
    R(w.store, [a.c EXCEPT !.Data = <<a.obj>>], a.log, NoError)

\* the after-get hook over a slice, stopping at the first error: [objs, c, log, err]
RECURSIVE AfterGetAll(_, _, _, _, _)
AfterGetAll(objs, i, c, lg, env) ==
    IF i > Len(objs) THEN [objs |-> objs, c |-> c, log |-> lg, err |-> NoError]
    ELSE LET a == callAfterGetHook(objs[i], c, lg, env) IN
         IF a.err # NoError THEN [objs |-> objs, c |-> a.c, log |-> a.log, err |-> a.err]
         ELSE AfterGetAll([objs EXCEPT ![i] = a.obj], i + 1, a.c, a.log, env)

\* Handler.processBatchCreateChunk: the before-create chain and the override
\* for every item of the chunk; the chunk slice is then built with
\* reflect.MakeSlice, whose value is not addressable, and chunkSlice.Addr()
\* panics before the insert is issued
RECURSIVE BeforeChunk(_, _, _, _, _, _)
BeforeChunk(objs, i, end, c, lg, env) ==
    IF i >= end THEN [objs |-> objs, c |-> c, log |-> lg, err |-> NoError]
    ELSE IF end - i = 1 THEN
         LET b == callBeforeCreateHook(objs[i + 1], c, lg, env) IN
         IF b.err # NoError THEN [objs |-> objs, c |-> b.c, log |-> b.log, err |-> b.err]
         ELSE [objs |-> [objs EXCEPT ![i + 1] = applyOverrides(b.c, b.obj)],
               c |-> b.c, log |-> b.log, err |-> NoError]
    ELSE \* the loop over [i, end) as its first half followed by its second:
         \* the items are visited in the same order, the first error stops it
         LET mid == i + ((end - i) \div 2)
             a == BeforeChunk(objs, i, mid, c, lg, env)
         IN IF a.err # NoError THEN a
            ELSE BeforeChunk(a.objs, mid, end, a.c, a.log, env)

processBatchCreateChunk(st, c, lg, objs, start, end, env) ==
    LET b == BeforeChunk(objs, start, end, c, lg, env) IN
    IF b.err # NoError THEN [store |-> st, objs |-> b.objs, c |-> b.c, log |-> b.log, err |-> b.err]
    ELSE [store |-> st, objs |-> b.objs, c |-> b.c, log |-> b.log, err |-> ErrorPanic]

chunkSize == 100

\* Handler.BatchCreate
RECURSIVE BatchCreateFrom(_, _, _, _, _, _)
BatchCreateFrom(st, c, lg, objs, chunkStart, env) ==
    IF chunkStart >= Len(objs) THEN R(st, [c EXCEPT !.Data = objs], lg, NoError)
    ELSE LET chunkEnd == IF chunkStart + chunkSize > Len(objs) THEN Len(objs)
                         ELSE chunkStart + chunkSize
             r == processBatchCreateChunk(st, c, lg, objs, chunkStart, chunkEnd, env)
         IN IF r.err # NoError THEN R(r.store, r.c, r.log, r.err)
            ELSE BatchCreateFrom(r.store, r.c, r.log, r.objs, chunkStart + chunkSize, env)

BatchCreate(st, rq, env) ==
    LET p == RestPermission(NewCtx, <<>>, env) IN
    IF ~p.allow THEN R(st, p.c, p.log, ErrorPermissionDenied) ELSE
    IF ~rq.bodyOk THEN R(st, p.c, p.log, ParseError(StatusBadRequest)) ELSE
    BatchCreateFrom(st, p.c, p.log, rq.bodies, 0, env)

\* the parsed body laid over an object: the fields present in the body replace it
Overlay_whole(obj, body) == body
Overlay(obj, body) ==
    [f \in ColumnNames |-> IF body[f] # 0 THEN body[f] ELSE obj[f]]

\* Handler.handlePartialUpdate
handlePartialUpdate(st, c, lg, existing, rq, env) ==
    IF ~rq.bodyOk THEN R(st, c, lg, ParseError(StatusBadRequest)) ELSE
    LET b == callBeforeUpdateHook(rq.body, c, lg, env) IN
    IF b.err # NoError THEN R(st, b.c, b.log, b.err) ELSE
    LET upd == applyOverrides(b.c, b.obj)
        target == Overlay(existing, upd)
        clash == target.id # existing.id /\ target.id \in IdsOf(st)
    IN
    IF WriteFails(b.log, env) \/ clash
    THEN R(st, b.c, Append(b.log, StoreEv("Updates", upd, FALSE, {PkPred(existing.id)})),
           StoreError)
    ELSE
    LET st1 == {r \in st : r.id # existing.id} \cup {target}
        lg1 == b.log \o <<StoreEv("Updates", upd, TRUE, {PkPred(existing.id)}),
                          RowEv("Updates", target)>>
        lg2 == Append(lg1, StoreEv("First", target, TRUE, {PkPred(target.id)}))
        a == callAfterUpdateHook(target, b.c, lg2, env)
    IN IF a.err # NoError THEN R(st1, a.c, a.log, a.err)
       ELSE R(st1, [a.c EXCEPT !.Data = <<a.obj>>], a.log, NoError)

\* BodyParser(ptr) on an object that holds values: a field the body names
\* takes the body's value, the zero value included, the others keep theirs
ParseOnto(obj, rq) ==
    [f \in ColumnNames |-> IF f \in rq.zeroed THEN 0 ELSE Overlay(obj, rq.body)[f]]

\* Handler.handleFullUpdate
handleFullUpdate(st, c, lg, existing, rq, env) ==
    IF ~rq.bodyOk THEN R(st, c, lg, ParseError(StatusBadRequest)) ELSE
    LET b == callBeforeUpdateHook(ParseOnto(existing, rq), c, lg, env) IN
    IF b.err # NoError THEN R(st, b.c, b.log, b.err) ELSE
    LET w == dbSave(st, b.log, applyOverrides(b.c, b.obj), env) IN
    IF ~w.ok THEN R(st, b.c, w.log, StoreError) ELSE
    LET a == callAfterUpdateHook(w.obj, b.c, w.log, env) IN
    IF a.err # NoError THEN R(w.store, a.c, a.log, a.err)
    ELSE R(w.store, [a.c EXCEPT !.Data = <<a.obj>>], a.log, NoError)

\* Handler.Update
Update(st, rq, env) ==
    LET p == RestPermission(NewCtx, <<>>, env) IN
    IF ~p.allow THEN R(st, p.c, p.log, ErrorPermissionDenied) ELSE
    LET k == FindByPrimaryKey(st, p.c, p.log, ZeroObject, rq, env) IN
    IF k.err # NoError THEN R(st, p.c, k.log, k.err) ELSE
    IF ~k.found THEN R(st, p.c, k.log, ErrorObjectNotExist) ELSE
    IF rq.method = "PATCH"
    THEN handlePartialUpdate(st, p.c, k.log, k.obj, rq, env)
    ELSE handleFullUpdate(st, p.c, k.log, k.obj, rq, env)

\* the rows an Updates(ptr)/Delete(ptr) statement of a query touches: the
\* query's predicates, and ptr's own key when it is set
Touched(st, query, ptr) ==
    {r \in Select(st, query) : ptr.id = 0 \/ r.id = ptr.id}

\* after-update and after-get hooks over the rows of a BatchUpdate response
RECURSIVE AfterUpdateAll(_, _, _, _, _)
AfterUpdateAll(objs, i, c, lg, env) ==
    IF i > Len(objs) THEN [objs |-> objs, c |-> c, log |-> lg, err |-> NoError]
    ELSE LET a == callAfterUpdateHook(objs[i], c, lg, env) IN
         IF a.err # NoError THEN [objs |-> objs, c |-> a.c, log |-> a.log, err |-> a.err]
         ELSE LET g == callAfterGetHook(a.obj, a.c, a.log, env) IN
              IF g.err # NoError
              THEN [objs |-> objs, c |-> g.c, log |-> g.log, err |-> g.err]
              ELSE AfterUpdateAll([objs EXCEPT ![i] = g.obj], i + 1, g.c, g.log, env)

\* Handler.handleBatchUpdateResponse
handleBatchUpdateResponse(st, c, lg, query, ptr, env) ==
    LET found == SortById(Touched(st, query, ptr))
        a == AfterUpdateAll(found, 1, c, dbRead(lg, "Find", query), env)
    IN IF a.err # NoError THEN R(st, a.c, a.log, a.err)
       ELSE R(st, [a.c EXCEPT !.Data = a.objs], a.log, NoError)

\* Handler.BatchUpdate
BatchUpdate(st, rq, env) ==
    LET p == RestPermission(NewCtx, <<>>, env) IN
    IF ~p.allow THEN R(st, p.c, p.log, ErrorPermissionDenied) ELSE
    LET f == ApplyFilters(p.c, NewQuery, rq, env) IN
    IF f.err # NoError THEN R(st, p.c, p.log, f.err) ELSE
    IF ~rq.bodyOk THEN R(st, p.c, p.log, ParseError(StatusInternalServerError)) ELSE
    IF ~rq.unsafe /\ NoWhereClause(f.query) THEN R(st, p.c, p.log, ErrorUnsafe) ELSE
    LET b == callBeforeUpdateHook(rq.body, p.c, p.log, env) IN
    IF b.err # NoError THEN R(st, b.c, b.log, b.err) ELSE
    LET ptr == applyOverrides(b.c, b.obj)
        w == dbUpdates(st, b.log, Touched(st, f.query, ptr), ptr, f.query.where, env)
    IN
    IF ~w.ok THEN R(st, b.c, w.log, StoreError) ELSE
    IF rq.return THEN handleBatchUpdateResponse(w.store, b.c, w.log, f.query, ptr, env)
    ELSE R(w.store, [b.c EXCEPT !.Data = <<ptr>>], w.log, NoError)

\* Handler.Delete
Delete(st, rq, env) ==
    LET p == RestPermission(NewCtx, <<>>, env) IN
    IF ~p.allow THEN R(st, p.c, p.log, ErrorPermissionDenied) ELSE
    LET k == FindByPrimaryKey(st, p.c, p.log, ZeroObject, rq, env) IN
    IF k.err # NoError THEN R(st, p.c, k.log, k.err) ELSE
    IF ~k.found THEN R(st, p.c, k.log, ErrorObjectNotExist) ELSE
    LET b == callBeforeDeleteHook(k.obj, p.c, k.log, env) IN
    IF b.err # NoError THEN R(st, b.c, b.log, b.err) ELSE
    LET marked == [b.obj EXCEPT !.deleted = 1]
        rows == {r \in st : r.id = b.obj.id}
        w == IF env.soft
             THEN dbUpdates(st, b.log, rows, marked, {PkPred(b.obj.id)}, env)
             ELSE dbDelete(st, b.log, rows, b.obj, {PkPred(b.obj.id)}, env)
    IN
    IF ~w.ok THEN R(st, b.c, w.log, StoreError) ELSE
    LET a == callAfterDeleteHook(IF env.soft THEN marked ELSE b.obj, b.c, w.log, env) IN
    IF a.err # NoError THEN R(w.store, a.c, a.log, a.err)
    ELSE R(w.store, a.c, a.log, NoError)

\* Find(ptr) on a query: the selected rows in key order, after OFFSET and LIMIT
Find(st, query) ==
    LET s == SortById(Select(st, query))
        offset == IF query.offset > 0 THEN query.offset ELSE 0
        last == IF query.limit > 0 /\ offset + query.limit < Len(s)
                THEN offset + query.limit ELSE Len(s)
    IN SubSeq(s, offset + 1, last)

\* Handler.All
All(st, rq, env) ==
    LET p == RestPermission(NewCtx, <<>>, env) IN
    IF ~p.allow THEN R(st, p.c, p.log, ErrorPermissionDenied) ELSE
    LET f == ApplyFilters(p.c, NewQuery, rq, env) IN
    IF f.err # NoError THEN R(st, p.c, p.log, f.err) ELSE
    LET slice == Find(st, f.query)
        c1 == [p.c EXCEPT !.Total = Len(slice), !.Size = Len(slice)]
        a == AfterGetAll(slice, 1, c1, dbRead(p.log, "Find", f.query), env)
    IN IF a.err # NoError THEN R(st, a.c, a.log, a.err)
       ELSE R(st, [a.c EXCEPT !.Data = a.objs], a.log, NoError)

maxLimit == 100
minLimit == 10

\* Pagination.SetLimit
SetLimit(limit) ==
    LET l == IF limit # 0 THEN limit ELSE minLimit IN
    IF l < minLimit THEN minLimit ELSE IF l > maxLimit THEN maxLimit ELSE l

\* Pagination.SetCurrentPage
SetCurrentPage(page) == IF page > 0 THEN page ELSE 1

\* Pagination.SetPages: the page count
SetPages_floor(records, limit) == IF records \div limit = 0 THEN 1 ELSE records \div limit
SetPages(records, limit) ==
    IF records = 0 THEN 1
    ELSE LET pages == IF records % limit = 0 THEN records \div limit
                      ELSE (records \div limit) + 1
         IN IF pages = 0 THEN 1 ELSE pages

\* Go's int: two's complement with wrap-around.  The machine word has 64 bits;
\* the model keeps the arithmetic and scales the width to IntBits.
MaxInt == 2 ^ (IntBits - 1) - 1
MinInt == -(2 ^ (IntBits - 1))
WrapInt(x) == ((x - MinInt) % (2 ^ IntBits)) + MinInt

\* Pagination.GetPage
GetPage(page) == IF page < 1 THEN 1 ELSE page

\* Pagination.GetOffset
GetOffset(page, limit) == WrapInt((GetPage(page) - 1) * limit)

\* a Pagination value as `var p Pagination` declares it
ZeroPagination ==
    [Records |-> 0, Pages |-> 0, Limit |-> 0, Last |-> 0, PageRange |-> <<>>, Page |-> 0]

\* Pagination.SetLast (GetOffset, through GetPage, raises a Page below 1 to 1)
SetLast(p) ==
    LET last == WrapInt(GetOffset(p.Page, p.Limit) + p.Limit) IN
    [p EXCEPT !.Page = GetPage(p.Page),
              !.Last = IF last > p.Records THEN p.Records ELSE last]

\* Pagination.SetPageRange
SetPageRange(p) ==
    LET plus == WrapInt(p.Page + 5)
        to == IF plus > p.Pages THEN WrapInt(p.Pages + 1) ELSE plus
        from == IF p.Page - 2 > 0 THEN p.Page - 2 ELSE 1
    IN [p EXCEPT !.PageRange = @ \o [i \in 1..(to - from) |-> from + i - 1]]

\* Pagination.SetPages on the whole value
SetPagesOf(p) ==
    IF p.Records = 0 THEN [p EXCEPT !.Pages = 1]
    ELSE SetPageRange(SetLast([p EXCEPT !.Pages = SetPages(p.Records, p.Limit)]))

\* Pagination.Create: the count is stored, the Pagination is set from the
\* request's limit and page, and the query is run with Limit(limit) and
\* Offset(p.GetOffset())
PaginationCreate(p, total, limit, page) ==
    LET l == IF limit < 10 THEN 10 ELSE limit
        pg == IF page < 1 THEN 1 ELSE page
        p1 == SetPagesOf([p EXCEPT !.Records = total, !.Page = SetCurrentPage(pg),
                                   !.Limit = SetLimit(l)])
    IN [p |-> [p1 EXCEPT !.Page = GetPage(@)],
        query |-> [NewQuery EXCEPT !.limit = l, !.offset = GetOffset(p1.Page, p1.Limit)]]

\* Handler.Paginate
Paginate(st, rq, env) ==
    LET p == RestPermission(NewCtx, <<>>, env) IN
    IF ~p.allow THEN R(st, p.c, p.log, ErrorPermissionDenied) ELSE
    LET g == ModelHook("OnBeforeGet", HookState(ZeroObject, p.c, p.log), env) IN
    IF g.err # "" THEN R(st, g.c, g.log, ContextError(g.err, StatusInternalServerError)) ELSE
    LET limit == SetLimit(rq.size)
        page == SetCurrentPage(rq.page)
        c1 == [g.c EXCEPT !.Size = limit, !.Offset = GetOffset(page, limit), !.Page = page]
        f == ApplyFilters(c1, NewQuery, rq, env)
    IN
    IF f.err # NoError THEN R(st, c1, g.log, f.err) ELSE
    LET total == Cardinality(Select(st, f.query))
        c2 == [c1 EXCEPT !.Total = total, !.TotalPages = SetPages(total, limit)]
        q == [f.query EXCEPT !.limit = limit, !.offset = GetOffset(page, limit)]
        slice == Find(st, q)
        a == AfterGetAll(slice, 1, c2, dbRead(dbRead(g.log, "Count", f.query), "Find", q), env)
    IN IF a.err # NoError THEN R(st, a.c, a.log, a.err)
       ELSE R(st, [a.c EXCEPT !.Data = a.objs], a.log, NoError)

\* Handler.Get
Get(st, rq, env) ==
    LET p == RestPermission(NewCtx, <<>>, env) IN
    IF ~p.allow THEN R(st, p.c, p.log, ErrorPermissionDenied) ELSE
    LET k == FindByPrimaryKey(st, p.c, p.log, ZeroObject, rq, env) IN
    IF k.err # NoError THEN R(st, p.c, k.log, k.err) ELSE
    IF ~k.found THEN R(st, p.c, k.log, ErrorObjectNotExist) ELSE
    LET a == callAfterGetHook(k.obj, p.c, k.log, env) IN
    IF a.err # NoError THEN R(st, a.c, a.log, a.err)
    ELSE R(st, [a.c EXCEPT !.Data = <<a.obj>>], a.log, NoError)

\* Handler.BatchDelete: the result of the DELETE is not looked at
BatchDelete(st, rq, env) ==
    LET p == RestPermission(NewCtx, <<>>, env) IN
    IF ~p.allow THEN R(st, p.c, p.log, ErrorPermissionDenied) ELSE
    LET f == ApplyFilters(p.c, NewQuery, rq, env) IN
    IF f.err # NoError THEN R(st, p.c, p.log, f.err) ELSE
    IF ~rq.unsafe /\ NoWhereClause(f.query) THEN R(st, p.c, p.log, ErrorUnsafe) ELSE
    LET w == dbDelete(st, p.log, Select(st, f.query), ZeroObject, f.query.where, env) IN
    R(w.store, p.c, w.log, NoError)

\* A field of a Go struct as reflect sees it: an integer, a string (a
\* sequence of characters), a slice of strings (n = 0: the nil slice) or a
\* nested struct (n = 0: every field of it zero).
IntField(n) == [kind |-> "int", n |-> n, s |-> <<>>]
StringField(str) == [kind |-> "string", n |-> 0, s |-> str]
SliceField(isNil, strs) == [kind |-> "slice", n |-> IF isNil THEN 0 ELSE 1, s |-> strs]
StructField(n) == [kind |-> "struct", n |-> n, s |-> <<>>]

\* reflect.Value.IsZero
IsZero(field) ==
    IF field.kind = "string" THEN field.s = <<>> ELSE field.n = 0

\* strconv of a non-negative integer: its decimal digits
RECURSIVE Decimal(_)
Decimal(n) ==
    LET digit == <<"0", "1", "2", "3", "4", "5", "6", "7", "8", "9">>[(n % 10) + 1] IN
    IF n < 10 THEN <<digit>> ELSE Append(Decimal(n \div 10), digit)

\* the strings of a slice joined with one blank between them
RECURSIVE Joined(_)
Joined(strs) ==
    IF strs = <<>> THEN <<>>
    ELSE IF Len(strs) = 1 THEN strs[1]
    ELSE strs[1] \o <<" ">> \o Joined(Tail(strs))

\* fmt.Sprint(field.Interface())
Sprint(field) ==
    CASE field.kind = "int" -> Decimal(field.n)
      [] field.kind = "string" -> field.s
      [] field.kind = "slice" -> <<"[">> \o Joined(field.s) \o <<"]">>
      [] OTHER -> <<"{">> \o Decimal(field.n) \o <<"}">>

\* equal, the body of its loop: a field that is zero on either side or a
\* struct is skipped, any other is compared by its printed form
fieldsMatch(field1, field2) ==
    \/ IsZero(field2) \/ IsZero(field1)
    \/ field1.kind = "struct"
    \/ Sprint(field2) = Sprint(field1)

\* equal on two structs of one type that hold fields of every kind
equalStructs(val1, val2) ==
    \A f \in DOMAIN val1 : fieldsMatch(val1[f], val2[f])

\* equal: field by field, skipping every field that is zero on either side
\* (the columns of the model's rows are integers)
equal(val1, val2) ==
    \A f \in ColumnNames : fieldsMatch(IntField(val1[f]), IntField(val2[f]))

\* Handler.itemExistsInSlice
itemExistsInSlice_never(item, slice) == FALSE
itemExistsInSlice(item, slice) ==
    \E i \in 1..Len(slice) : equal(item, slice[i])

\* Handler.parseSetInput
parseSetInput(c, rq) ==
    IF ~rq.bodyOk THEN [input |-> <<>>, err |-> ParseError(StatusBadRequest)]
    ELSE [input |-> rq.bodies, err |-> NoError]

\* Handler.buildSetQuery
buildSetQuery(st, c, lg, rq, env) ==
    LET f == ApplyFilters(c, NewQuery, rq, env) IN
    IF f.err # NoError THEN [query |-> NilQuery, loader |-> <<>>, log |-> lg, err |-> f.err]
    ELSE IF ~rq.unsafe /\ NoWhereClause(f.query)
    THEN [query |-> NilQuery, loader |-> <<>>, log |-> lg, err |-> ErrorUnsafe]
    ELSE [query |-> f.query, loader |-> Find(st, f.query),
          log |-> dbRead(lg, "Find", f.query), err |-> NoError]

\* Handler.processSetDeletions, from loader item j on
RECURSIVE processSetDeletions(_, _, _, _, _, _, _)
processSetDeletions(st, c, lg, input, loader, j, env) ==
    IF j > Len(loader)
    THEN [store |-> st, c |-> c, log |-> lg, loader |-> loader, err |-> NoError]
    ELSE IF itemExistsInSlice(loader[j], input)
    THEN processSetDeletions(st, c, lg, input, loader, j + 1, env)
    ELSE
    LET b == callBeforeDeleteHook(loader[j], c, lg, env)
        l1 == [loader EXCEPT ![j] = b.obj]
    IN
    IF b.err # NoError
    THEN [store |-> st, c |-> b.c, log |-> b.log, loader |-> l1, err |-> b.err]
    ELSE
    LET w == dbDelete(st, b.log, {r \in st : r.id = b.obj.id}, b.obj,
                      {PkPred(b.obj.id)}, env)
    IN
    IF ~w.ok
    THEN [store |-> st, c |-> b.c, log |-> w.log, loader |-> l1, err |-> StoreError]
    ELSE
    LET a == callAfterDeleteHook(b.obj, b.c, w.log, env)
        l2 == [loader EXCEPT ![j] = a.obj]
    IN
    IF a.err # NoError
    THEN [store |-> w.store, c |-> a.c, log |-> a.log, loader |-> l2, err |-> a.err]
    ELSE processSetDeletions(w.store, a.c, a.log, input, l2, j + 1, env)

\* Handler.processSetCreations, from input item i on
RECURSIVE processSetCreations(_, _, _, _, _, _, _)
processSetCreations(st, c, lg, input, loader, i, env) ==
    IF i > Len(input)
    THEN [store |-> st, c |-> c, log |-> lg, err |-> NoError]
    ELSE IF itemExistsInSlice(input[i], loader)
    THEN processSetCreations(st, c, lg, input, loader, i + 1, env)
    ELSE
    LET b == callBeforeCreateHook(input[i], c, lg, env) IN
    IF b.err # NoError
    THEN [store |-> st, c |-> b.c, log |-> b.log, err |-> b.err]
    ELSE
    LET v == ModelHook("ValidateCreate", HookState(b.obj, b.c, b.log), env) IN
    IF v.err # ""
    THEN [store |-> st, c |-> v.c, log |-> v.log,
          err |-> ContextError(v.err, StatusBadRequest)]
    ELSE
    LET w == dbCreate(st, v.log, applyOverrides(v.c, v.obj), env) IN
    IF ~w.ok
    THEN [store |-> st, c |-> v.c, log |-> w.log, err |-> StoreError]
    ELSE
    LET a == callAfterCreateHook(w.obj, v.c, w.log, env) IN
    IF a.err # NoError
    THEN [store |-> w.store, c |-> a.c, log |-> a.log, err |-> a.err]
    ELSE processSetCreations(w.store, a.c, a.log, input, loader, i + 1, env)

\* Handler.handleSetResponse
handleSetResponse(st, c, lg, query, rq, env) ==
    IF rq.return
    THEN LET a == AfterGetAll(Find(st, query), 1, c, dbRead(lg, "Find", query), env) IN
         IF a.err # NoError THEN R(st, a.c, a.log, a.err)
         ELSE R(st, [a.c EXCEPT !.Data = a.objs], a.log, NoError)
    ELSE R(st, [c EXCEPT !.Data = <<>>], lg, NoError)

\* Handler.Set
Set_atomic(st, rq, env) ==
    LET p == RestPermission(NewCtx, <<>>, env) IN
    IF ~p.allow THEN R(st, p.c, p.log, ErrorPermissionDenied) ELSE
    LET i == parseSetInput(p.c, rq) IN
    IF i.err # NoError THEN R(st, p.c, p.log, i.err) ELSE
    LET q == buildSetQuery(st, p.c, p.log, rq, env) IN
    IF q.err # NoError THEN R(st, p.c, q.log, q.err) ELSE
    LET d == processSetDeletions(st, p.c, q.log, i.input, q.loader, 1, env) IN
    IF d.err # NoError THEN R(st, d.c, d.log, d.err) ELSE
    LET n == processSetCreations(d.store, d.c, d.log, i.input, d.loader, 1, env) IN
    IF n.err # NoError THEN R(st, n.c, n.log, n.err) ELSE
    handleSetResponse(n.store, n.c, n.log, q.query, rq, env)
Set(st, rq, env) ==
    LET p == RestPermission(NewCtx, <<>>, env) IN
    IF ~p.allow THEN R(st, p.c, p.log, ErrorPermissionDenied) ELSE
    LET i == parseSetInput(p.c, rq) IN
    IF i.err # NoError THEN R(st, p.c, p.log, i.err) ELSE
    LET q == buildSetQuery(st, p.c, p.log, rq, env) IN
    IF q.err # NoError THEN R(st, p.c, q.log, q.err) ELSE
    LET d == processSetDeletions(st, p.c, q.log, i.input, q.loader, 1, env) IN
    IF d.err # NoError THEN R(d.store, d.c, d.log, d.err) ELSE
    LET n == processSetCreations(d.store, d.c, d.log, i.input, d.loader, 1, env) IN
    IF n.err # NoError THEN R(n.store, n.c, n.log, n.err) ELSE
    handleSetResponse(n.store, n.c, n.log, q.query, rq, env)

\* Handler.parseAggregateFields: the parameter is absent, holds no
\* field.function item, or holds one
parseAggregateFields(rq) ==
    IF rq.fields = ""
    THEN Err(StatusBadRequest, "fields parameter is required")
    ELSE IF rq.fields = "bad"
    THEN Err(StatusBadRequest,
             "fields parameter should contain aggregate functions field_name.aggregate_function")
    ELSE NoError

Aggregate_guarded(st, rq, env) ==
    LET p == RestPermission(NewCtx, <<>>, env) IN
    IF ~p.allow THEN R(st, p.c, p.log, ErrorPermissionDenied) ELSE
    LET f == ApplyFilters(p.c, NewQuery, rq, env) IN
    IF f.err # NoError THEN R(st, p.c, p.log, f.err) ELSE
    IF NoWhereClause(f.query) /\ ~rq.unsafe THEN R(st, p.c, p.log, ErrorUnsafe) ELSE
    LET e == parseAggregateFields(rq) IN
    IF e # NoError THEN R(st, p.c, p.log, e) ELSE
    R(st, [p.c EXCEPT !.Data = <<>>], dbRead(p.log, "Scan", f.query), NoError)

\* Handler.Aggregate
Aggregate(st, rq, env) ==
    LET p == RestPermission(NewCtx, <<>>, env) IN
    IF ~p.allow THEN R(st, p.c, p.log, ErrorPermissionDenied) ELSE
    LET f == ApplyFilters(p.c, NewQuery, rq, env) IN
    IF f.err # NoError THEN R(st, p.c, p.log, f.err) ELSE
    LET e == parseAggregateFields(rq) IN
    IF e # NoError THEN R(st, p.c, p.log, e) ELSE
    R(st, [p.c EXCEPT !.Data = <<>>], dbRead(p.log, "Scan", f.query), NoError)

(* ------------------------------------------------ resource registration *)
\* the fields of Feature
FeatureNames ==
    {"DisableCreate", "DisableUpdate", "DisableList", "DisableDelete",
     "DisableSet", "DisableAggregate", "API"}

\* A model is its table name and the types of its struct fields; a type is
\* the name reflect prints, split at "." as GetFeatures splits it:
\* restify.API is <<"restify", "API">>, string is <<"string">>.
GetFeatures(v) ==
    [name \in FeatureNames |-> \E t \in v.types : Len(t) = 2 /\ t[2] = name]

\* strcase.ToCamel on the endpoint names UseModel passes
ToCamel ==
    [n \in {"MODEL INFO", "SET", "ALL", "PAGINATE", "GET", "CREATE", "BATCH.CREATE",
            "BATCH.UPDATE", "UPDATE", "BATCH.DELETE", "DELETE"} |->
        CASE n = "MODEL INFO" -> "ModelInfo"
          [] n = "SET" -> "Set"
          [] n = "ALL" -> "All"
          [] n = "PAGINATE" -> "Paginate"
          [] n = "GET" -> "Get"
          [] n = "CREATE" -> "Create"
          [] n = "BATCH.CREATE" -> "BatchCreate"
          [] n = "BATCH.UPDATE" -> "BatchUpdate"
          [] n = "UPDATE" -> "Update"
          [] n = "BATCH.DELETE" -> "BatchDelete"
          [] n = "DELETE" -> "Delete"]

\* an Endpoint literal; URL is the path split at "/" (so "/" is <<>>), Handler
\* the name of the Handler method bound to it
Endpoint(name, method, url, pkUrl, handler) ==
    [Name |-> name, Method |-> method, URL |-> url, PKUrl |-> pkUrl, Handler |-> handler]

\* Resource.SetAction: the name in camel case, the key parameter appended to
\* the URL of a PKUrl endpoint, the endpoint appended to Actions
SetAction(res, action) ==
    [res EXCEPT !.Path = res.Table,
                !.Actions = Append(@, [action EXCEPT
                                !.Name = ToCamel[action.Name],
                                !.URL = IF action.PKUrl THEN @ \o <<":id">> ELSE @])]

\* UseModel on the registry reg: [resource, resources]
UseModel(model, reg) ==
    LET features == GetFeatures(model)
        r0 == [Table |-> model.table, Path |-> "", Feature |-> features,
               Instance |-> model, Actions |-> <<>>]
        r1 == SetAction(r0, Endpoint("MODEL INFO", "GET", <<>>, FALSE, "ModelInfo"))
        r2 == IF ~features.DisableSet
              THEN SetAction(r1, Endpoint("SET", "POST", <<"set">>, FALSE, "Set"))
              ELSE r1
        r3 == IF ~features.DisableList
              THEN SetAction(SetAction(SetAction(r2,
                       Endpoint("ALL", "GET", <<"all">>, FALSE, "All")),
                       Endpoint("PAGINATE", "GET", <<"paginate">>, FALSE, "Paginate")),
                       Endpoint("GET", "GET", <<>>, TRUE, "Get"))
              ELSE r2
        r4 == IF ~features.DisableCreate
              THEN SetAction(SetAction(r3,
                       Endpoint("CREATE", "PUT", <<>>, FALSE, "Create")),
                       Endpoint("BATCH.CREATE", "PUT", <<"batch">>, FALSE, "BatchCreate"))
              ELSE r3
        r5 == IF ~features.DisableUpdate
              THEN SetAction(SetAction(r4,
                       Endpoint("BATCH.UPDATE", "PATCH", <<"batch">>, FALSE, "BatchUpdate")),
                       Endpoint("UPDATE", "PATCH", <<>>, TRUE, "Update"))
              ELSE r4
        r6 == IF ~features.DisableDelete
              THEN SetAction(SetAction(r5,
                       Endpoint("BATCH.DELETE", "DELETE", <<"batch">>, FALSE, "BatchDelete")),
                       Endpoint("DELETE", "DELETE", <<>>, TRUE, "Delete"))
              ELSE r5
    IN IF ~features.API THEN [resource |-> r0, resources |-> reg]
       ELSE [resource |-> r6,
             resources |-> [t \in (DOMAIN reg) \cup {model.table} |->
                               IF t = model.table THEN r6 ELSE reg[t]]]

\* the registry and the returned resource before any registration
NoResources == <<>>
NoResource ==
    [Table |-> "", Path |-> "", Feature |-> [name \in FeatureNames |-> FALSE],
     Instance |-> [table |-> "", types |-> {}], Actions |-> <<>>]

(* ------------------------------------------------------- HTTP transport *)
\* the body and status a request.Write leaves with the client
Text(str) == [kind |-> "text", value |-> str]
ToJSON(v) == [kind |-> "json", value |-> v]
NothingSent == [Status |-> 0, Body |-> Text("")]

ErrorHandlerNotFound == Err(StatusNotFound, "handler not found")

\* Context.PrepareResponse: the Response of the Context, emptied when it
\* reports a failure (Data is set to 0, the empty value here)
PrepareResponse(c) ==
    LET response == [data |-> c.Data, success |-> c.Success, error |-> c.Error,
                     validation_error |-> c.ValidationError,
                     total |-> c.Total, total_pages |-> c.TotalPages,
                     current_page |-> c.Page, size |-> c.Size, offset |-> c.Offset]
    IN IF ~response.success
       THEN [response EXCEPT !.data = <<>>, !.size = 0, !.current_page = 0, !.total = 0,
                             !.total_pages = 0, !.offset = 0]
       ELSE response

(* ------------------------------------------------------------- SQL text *)
\* A string of the request is modelled by what the checks of the code can
\* tell about it: "column" is the name of a column of the schema, "word" a
\* string of letters, digits and underscores that names no column, "hostile"
\* a string holding a backtick, a blank or a parenthesis, "lines" a word
\* followed by a line break and a hostile line; "" is an absent parameter.
UserStrings == {"column", "word", "hostile", "lines"}

\* columnNameRegex ^\w+$ and groupByRegex (?mi)^[a-z0-9_\-.,]+$: with the
\* flag m the anchors match at a line break, so one matching line suffices
columnNameRegex(str) == str \in {"column", "word"}
groupByRegex(str) == str \in {"column", "word", "lines"}
InSchema(str) == str = "column"

\* a piece of SQL text that comes from the request: quoted in backticks,
\* written as it is, or passed as a bound parameter
Quoted(part, str) == [part |-> part, text |-> str, form |-> "quoted"]
Raw(part, str) == [part |-> part, text |-> str, form |-> "raw"]
Param(part, str) == [part |-> part, text |-> str, form |-> "bound"]

\* a name handed to gorm's Select or Group: quoted when it is a column of the
\* schema, written as it is otherwise
GormName(part, str) == IF InSchema(str) THEN Quoted(part, str) ELSE Raw(part, str)

\* parseOrderBy on one clause: dir is the text after the last dot ("" when the
\* clause holds no dot); the column is wrapped in backticks unexamined, a
\* clause without a dot is left as it is
parseOrderBy(column, dir) ==
    IF column = "" THEN {}
    ELSE IF dir = "" THEN {Raw("order", column)}
    ELSE {Quoted("order", column)}

\* filterMapper on one clause column[eq]=value: the column is looked up in the
\* schema, the value is a parameter
FilterPieces(column, value) ==
    IF column = "" THEN [rejected |-> FALSE, pieces |-> {}]
    ELSE IF ~InSchema(column) THEN [rejected |-> TRUE, pieces |-> {}]
    ELSE [rejected |-> FALSE,
          pieces |-> {Quoted("where", column), Param("where", value)}]

\* Context.ApplyFilters: order, group_by, fields, then the filter clauses
ApplyFiltersSql(in) ==
    LET order == parseOrderBy(in.order, in.dir)
        group == IF in.group_by # "" /\ groupByRegex(in.group_by)
                 THEN {Raw("group", in.group_by)} ELSE {}
        fields == IF in.fields # "" THEN {GormName("select", in.fields)} ELSE {}
        filter == FilterPieces(in.column, in.value)
    IN [rejected |-> filter.rejected,
        pieces |-> IF filter.rejected THEN {}
                   ELSE order \cup group \cup fields \cup filter.pieces]

\* aggregateRegex on one item name.function: the name is the run of
\* characters of [a-z0-9_*\-] before the dot, whatever precedes it
AggregateName(str) == IF str \in {"column", "word"} THEN str ELSE "word"

\* Handler.Aggregate: ApplyFilters, then the select list of
\* parseAggregateFields replaces the selected fields, then group_by is
\* grouped and selected when it is a word
AggregateSql(in) ==
    LET base == ApplyFiltersSql(in)
        kept == {p \in base.pieces : p.part # "select"}
        grouped == IF columnNameRegex(in.group_by)
                   THEN {GormName("group", in.group_by), GormName("select", in.group_by)}
                   ELSE {}
    IN IF base.rejected \/ in.fields = "" THEN [rejected |-> TRUE, pieces |-> {}]
       ELSE [rejected |-> FALSE,
             pieces |-> kept \cup {Quoted("select", AggregateName(in.fields))}
                             \cup grouped]

NoSql == [rejected |-> FALSE, pieces |-> {}]

(* -------------------------------------------------- concurrent requests *)
\* the package-level values a handler reads: the predefined errors, which
\* handlers return by pointer, and the callback lists
Package ==
    [errors |-> [ErrorObjectNotExist |-> ErrorObjectNotExist,
                 ErrorColumnNotExist |-> ErrorColumnNotExist,
                 ErrorPermissionDenied |-> ErrorPermissionDenied,
                 ErrorHandlerNotFound |-> ErrorHandlerNotFound,
                 ErrorUnsafe |-> ErrorUnsafe],
     callbacks |-> [onBeforeCreate |-> _onBeforeCreateCallbacks,
                    onBeforeUpdate |-> _onBeforeUpdateCallbacks,
                    onBeforeSave |-> _onBeforeSaveCallbacks,
                    onBeforeDelete |-> _onBeforeDeleteCallbacks,
                    onAfterCreate |-> _onAfterCreateCallbacks,
                    onAfterUpdate |-> _onAfterUpdateCallbacks,
                    onAfterSave |-> _onAfterSaveCallbacks,
                    onAfterDelete |-> _onAfterDeleteCallbacks,
                    onAfterGet |-> _onAfterGetCallbacks]]

\* the requests that may be in service at the same time
Procs == {"r1", "r2"}

\* the Context a request is served on: Endpoint.handler allocates one per call
ContextOf_shared(p) == "r1"
ContextOf(p) == p

\* a request not in service
Idle == [at |-> "idle", rq |-> DefaultRq, env |-> DefaultEnv, obj |-> ZeroObject,
         ret |-> NoError]
NoRequests == [contexts |-> [a \in Procs |-> NewCtx], req |-> [p \in Procs |-> Idle]]

(* ------------------------------------------------- the request machine *)
\* A request is served by a Handler method called on a fresh Context, and
\* Context.HandleError processes what the method returned (the sequence written
\* in Endpoint.handler, resource.go:202-217; the statements at resource.go:200-201
\* answer "test" and return before it, so the machine below is the handler
\* methods and HandleError, not the HTTP transport).
\* pc = "ready": the next handler call may start;
\* pc = "done": the response of request inp is in ctx, ret and log, and pre is
\* the table as the request found it.
NoInput == [rq |-> DefaultRq, env |-> DefaultEnv]

\* rows a running application holds: validated, not soft-deleted
InitRows == {r \in Rows : r.owner \in 1..(MaxVal - 1) /\ r.name = 1 /\ r.deleted = 0}
InitStores == {s \in SUBSET InitRows : UniqueIds(s)}

Init ==
    /\ store \in InitStores
    /\ pre = store
    /\ pc = "ready"
    /\ op = "none"
    /\ ctx = NewCtx
    /\ ret = NoError
    /\ log = <<>>
    /\ inp = NoInput
    /\ pagination = ZeroPagination
    /\ resources = NoResources
    /\ resource = NoResource
    /\ sent = NothingSent
    /\ inflight = NoRequests
    /\ globals = Package
    /\ sql = NoSql

\* the next request gets a new Context
NewContext ==
    /\ pc = "done"
    /\ pc' = "ready"
    /\ op' = "none"
    /\ ctx' = NewCtx
    /\ ret' = NoError
    /\ log' = <<>>
    /\ inp' = NoInput
    /\ pre' = store
    /\ UNCHANGED <<store, pagination, resources, resource, sent, inflight, globals, sql>>

\* the handler has returned r for request rq while the application behaved
\* as env: context.HandleError(action.Handler(context))
Respond(name, r, rq, env) ==
    /\ store' = r.store
    /\ ctx' = HandleError(r.c, r.err)
    /\ ret' = r.err
    /\ log' = r.log
    /\ pre' = store
    /\ op' = name
    /\ inp' = [rq |-> rq, env |-> env]
    /\ pc' = "done"
    /\ UNCHANGED <<pagination, resources, resource, sent, inflight, globals, sql>>

\* The endpoints UseModel registers, one action each.  An Endpoint holds its
\* Handler as a field; a request is drawn from Rqs and the application's
\* behaviour from Envs.
ServeModelInfo(Handler(_, _, _), Rqs, Envs) ==
    /\ pc = "ready"
    /\ \E rq \in Rqs, env \in Envs : Respond("ModelInfo", Handler(store, rq, env), rq, env)

ServeCreate(Handler(_, _, _), Rqs, Envs) ==
    /\ pc = "ready"
    /\ \E rq \in Rqs, env \in Envs : Respond("Create", Handler(store, rq, env), rq, env)

ServeBatchCreate(Handler(_, _, _), Rqs, Envs) ==
    /\ pc = "ready"
    /\ \E rq \in Rqs, env \in Envs : Respond("BatchCreate", Handler(store, rq, env), rq, env)

ServeUpdate(Handler(_, _, _), Rqs, Envs) ==
    /\ pc = "ready"
    /\ \E rq \in Rqs, env \in Envs : Respond("Update", Handler(store, rq, env), rq, env)

ServeBatchUpdate(Handler(_, _, _), Rqs, Envs) ==
    /\ pc = "ready"
    /\ \E rq \in Rqs, env \in Envs : Respond("BatchUpdate", Handler(store, rq, env), rq, env)

ServeDelete(Handler(_, _, _), Rqs, Envs) ==
    /\ pc = "ready"
    /\ \E rq \in Rqs, env \in Envs : Respond("Delete", Handler(store, rq, env), rq, env)

ServeBatchDelete(Handler(_, _, _), Rqs, Envs) ==
    /\ pc = "ready"
    /\ \E rq \in Rqs, env \in Envs : Respond("BatchDelete", Handler(store, rq, env), rq, env)

ServeGet(Handler(_, _, _), Rqs, Envs) ==
    /\ pc = "ready"
    /\ \E rq \in Rqs, env \in Envs : Respond("Get", Handler(store, rq, env), rq, env)

ServeAll(Handler(_, _, _), Rqs, Envs) ==
    /\ pc = "ready"
    /\ \E rq \in Rqs, env \in Envs : Respond("All", Handler(store, rq, env), rq, env)

ServePaginate(Handler(_, _, _), Rqs, Envs) ==
    /\ pc = "ready"
    /\ \E rq \in Rqs, env \in Envs : Respond("Paginate", Handler(store, rq, env), rq, env)

ServeSet(Handler(_, _, _), Rqs, Envs) ==
    /\ pc = "ready"
    /\ \E rq \in Rqs, env \in Envs : Respond("Set", Handler(store, rq, env), rq, env)

ServeAggregate(Handler(_, _, _), Rqs, Envs) ==
    /\ pc = "ready"
    /\ \E rq \in Rqs, env \in Envs : Respond("Aggregate", Handler(store, rq, env), rq, env)

\* views of the event log
HookEvents(lg) == {i \in 1..Len(lg) : lg[i].kind = "hook"}
WriteEvents(lg) == {i \in 1..Len(lg) : lg[i].kind = "store" /\ lg[i].name \in WriteNames}
RowEvents(lg) == {i \in 1..Len(lg) : lg[i].kind = "row"}
PermEvents(lg) == {i \in 1..Len(lg) : lg[i].kind = "perm"}
Done == pc = "done"

\* request bodies and parameters the specifications draw from
ValidBody == [id |-> 0, owner |-> 1, name |-> 1, deleted |-> 0]
PermChoices == {"absent", "allow", "deny"}

(* --------------------------------------------- specification: permissions *)
\* Every endpoint under every combination of model hook and global handler.
PermEnvs == {[DefaultEnv EXCEPT !.modelPerm = m, !.globalPerm = g] :
                m \in PermChoices, g \in PermChoices}
PermRqs == {[DefaultRq EXCEPT !.body = ValidBody, !.bodies = <<ValidBody>>,
                              !.pk = k, !.bodyOk = b, !.unsafe = TRUE,
                              !.fields = "id.count"] :
               k \in Ids, b \in BOOLEAN}

NextPerm ==
    \/ NewContext
    \/ ServeModelInfo(ModelInfo, PermRqs, PermEnvs)
    \/ ServeCreate(Create, PermRqs, PermEnvs)
    \/ ServeBatchCreate(BatchCreate, PermRqs, PermEnvs)
    \/ ServeUpdate(Update, PermRqs, PermEnvs)
    \/ ServeBatchUpdate(BatchUpdate, PermRqs, PermEnvs)
    \/ ServeDelete(Delete, PermRqs, PermEnvs)
    \/ ServeBatchDelete(BatchDelete, PermRqs, PermEnvs)
    \/ ServeGet(Get, PermRqs, PermEnvs)
    \/ ServeAll(All, PermRqs, PermEnvs)
    \/ ServePaginate(Paginate, PermRqs, PermEnvs)
    \/ ServeSet(Set, PermRqs, PermEnvs)
    \/ ServeAggregate(Aggregate, PermRqs, PermEnvs)

SpecPerm == Init /\ [][NextPerm]_vars


\* C5: permission resolution is a strict override.  With a model hook, the
\* gate consults the hook only (the global handler is never invoked) and the
\* request is refused exactly when the hook denies; without a hook the global
\* handler decides; with neither, nothing is consulted and nothing is refused.
PermissionStrictOverride ==
    Done =>
        LET e == inp.env
            consulted == {log[i] : i \in PermEvents(log)}
            refused == ret = ErrorPermissionDenied
        IN /\ Cardinality(PermEvents(log)) <= 1
           /\ e.modelPerm # "absent" =>
                 /\ consulted \subseteq {PermEv("model", e.modelPerm = "allow")}
                 /\ refused <=> (consulted # {} /\ e.modelPerm = "deny")
           /\ e.modelPerm = "absent" /\ e.globalPerm # "absent" =>
                 /\ consulted \subseteq {PermEv("global", e.globalPerm = "allow")}
                 /\ refused <=> (consulted # {} /\ e.globalPerm = "deny")
           /\ e.modelPerm = "absent" /\ e.globalPerm = "absent" =>
                 consulted = {} /\ ~refused

\* a Delete that the model hook allows while the global handler would deny
HookOverridesGlobal ==
    /\ Done /\ op = "Delete"
    /\ inp.env.modelPerm = "allow" /\ inp.env.globalPerm = "deny"
    /\ ret = NoError /\ store # pre

RECURSIVE SeqsUpTo(_, _)
SeqsUpTo(S, n) ==
    IF n = 0 THEN {<<>>}
    ELSE LET shorter == SeqsUpTo(S, n - 1) IN
         shorter \cup {Append(q, x) : q \in shorter, x \in S}

OwnerIsOne == Condition("owner", "=", 1)
GuardClauses == {Clause("owner", "eq", <<1>>), Clause("name", "eq", <<1>>)}
GuardEnvs == {[DefaultEnv EXCEPT !.globalPerm = g, !.conds = cs,
                                 !.restFilter = rf, !.restFilterAdds = rf] :
                 g \in {"absent", "deny"}, cs \in {<<>>, <<OwnerIsOne>>}, rf \in BOOLEAN}
GuardRqs == {[DefaultRq EXCEPT !.qs = q, !.unsafe = u, !.bodyOk = b,
                               !.body = [ZeroObject EXCEPT !.owner = MaxVal - 1],
                               !.bodies = <<ValidBody>>] :
                q \in SeqsUpTo(GuardClauses, MaxClauses), u \in BOOLEAN, b \in BOOLEAN}

NextGuard ==
    \/ NewContext
    \/ ServeBatchUpdate(BatchUpdate, GuardRqs, GuardEnvs)
    \/ ServeBatchDelete(BatchDelete, GuardRqs, GuardEnvs)
    \/ ServeSet(Set, GuardRqs, GuardEnvs)

SpecGuard == Init /\ [][NextGuard]_vars

\* the permission gate has let the request pass
GateAllowed == \A i \in PermEvents(log) : log[i].ok

\* the query the handler builds from the request comes out without a predicate
BuiltWithoutPredicate ==
    LET f == ApplyFilters(ctx, NewQuery, inp.rq, inp.env) IN
    f.err = NoError /\ f.query.where = {}

\* what an unsafe-request refusal looks like
RefusedAsUnsafe ==
    /\ ret.Code = StatusBadRequest /\ ret.Message = "unsafe request"
    /\ ctx.Code = StatusBadRequest /\ ~ctx.Success
    /\ store = pre
    /\ HookEvents(log) = {} /\ WriteEvents(log) = {} /\ RowEvents(log) = {}

FilterClauses == {Clause("owner", "eq", <<1>>), Clause("name", "eq", <<1>>),
                  Clause("nosuch", "eq", <<1>>), Clause("owner", "like", <<1>>)}
FilterEnvs == {[DefaultEnv EXCEPT !.modelPerm = "allow", !.conds = cs,
                                  !.restFilter = rf[1], !.restFilterAdds = rf[2]] :
                  cs \in {<<>>, <<OwnerIsOne>>},
                  rf \in {<<FALSE, FALSE>>, <<TRUE, FALSE>>, <<TRUE, TRUE>>}}
FilterRqs == {[DefaultRq EXCEPT !.qs = q, !.pk = k, !.unsafe = TRUE,
                                !.body = [ZeroObject EXCEPT !.owner = MaxVal - 1],
                                !.bodies = <<ValidBody>>, !.fields = "id.count"] :
                 q \in SeqsUpTo(FilterClauses, MaxClauses), k \in {1, MaxId}}

NextFilter ==
    \/ NewContext
    \/ ServeUpdate(Update, FilterRqs, FilterEnvs)
    \/ ServeBatchUpdate(BatchUpdate, FilterRqs, FilterEnvs)
    \/ ServeDelete(Delete, FilterRqs, FilterEnvs)
    \/ ServeBatchDelete(BatchDelete, FilterRqs, FilterEnvs)
    \/ ServeGet(Get, FilterRqs, FilterEnvs)
    \/ ServeAll(All, FilterRqs, FilterEnvs)
    \/ ServePaginate(Paginate, FilterRqs, FilterEnvs)
    \/ ServeSet(Set, FilterRqs, FilterEnvs)
    \/ ServeAggregate(Aggregate, FilterRqs, FilterEnvs)

SpecFilter == Init /\ [][NextFilter]_vars

\* the statements whose WHERE clause comes from ApplyFilters, filterMapper or
\* FindByPrimaryKey: the reads, and the writes of BatchUpdate and BatchDelete
FilteredStatements(lg) ==
    {i \in 1..Len(lg) :
        /\ lg[i].kind = "store"
        /\ \/ lg[i].name \in {"Find", "Take", "Count", "Scan"}
           \/ op \in {"BatchUpdate", "BatchDelete"} /\ lg[i].name \in WriteNames}

\* C2: every forced Condition on the Context is a predicate of every
\* statement the handler executes on a query built by ApplyFilters,
\* filterMapper or FindByPrimaryKey, whatever the query string.
ForcedConditionsApplied ==
    Done =>
        \A i \in FilteredStatements(log) :
            \A k \in 1..Len(ctx.Conditions) :
                CondPred(ctx.Conditions[k]) \in log[i].where

\* the query string maps onto the query without an error
QueryStringAccepted == filterMapper(inp.rq.qs, ctx, NewQuery, inp.env).err = NoError

\* the rows of the table the request may see: those inside the forced Conditions
WithinConditions ==
    {r \in pre : \A k \in 1..Len(ctx.Conditions) : Match(r, CondPred(ctx.Conditions[k]))}

\* C11: Get, Update and Delete on a primary key that matches no row inside
\* the forced Conditions return ObjectNotExist with status 404, run no hook
\* and write nothing (the gate having allowed the request and the query
\* string being well-formed).
MissingKeyIsNotFound ==
    /\ Done /\ op \in {"Get", "Update", "Delete"}
    /\ GateAllowed /\ QueryStringAccepted
    /\ ~\E r \in WithinConditions : r.id = inp.rq.pk
    => /\ ret = ErrorObjectNotExist
       /\ ctx.Code = StatusNotFound
       /\ HookEvents(log) = {} /\ WriteEvents(log) = {}
       /\ store = pre

\* the operator tokens filterMapper accepts
OperatorWhitelist == (DOMAIN filterConditions) \cup {"notin", "search"}

\* a clause of the query string names an unknown column or operator
InvalidClause(filter) ==
    filter.column \notin ColumnNames \/ filter.condition \notin OperatorWhitelist

StoreEvents(lg) == {i \in 1..Len(lg) : lg[i].kind = "store"}

\* C17: a request whose query string holds a clause with an operator outside
\* the whitelist or a column outside the schema is answered with an error,
\* and no store query or mutation is executed for it
InvalidClauseRejectsRequest ==
    /\ Done /\ GateAllowed
    /\ \E i \in 1..Len(inp.rq.qs) : InvalidClause(inp.rq.qs[i])
    => /\ ret \notin {NoError, ErrorPanic}
       /\ StoreEvents(log) = {} /\ RowEvents(log) = {}
       /\ store = pre

(* --------------------------------------------- specification: Set reconcile *)
\* Set on the rows of a filter scope, the submitted array drawn from the rows
\* a table can hold and from new entries without a key; the model's delete
\* hooks may assign a field of the object they are handed.
SetOwners == {1, MaxVal - 1}
NewEntries == {[ZeroObject EXCEPT !.owner = o, !.name = 1] : o \in SetOwners}
SetBodies == SeqsUpTo({r \in InitRows : r.owner \in SetOwners} \cup NewEntries, MaxBatch)
SetEnvs == {DefaultEnv}
           \cup {[DefaultEnv EXCEPT !.mutHook = h, !.mutVal = v] :
                    h \in {"OnBeforeDelete", "OnAfterDelete"}, v \in SetOwners}
SetRqs == {[DefaultRq EXCEPT !.bodies = b, !.qs = q[1], !.unsafe = q[2]] :
              b \in SetBodies,
              q \in {<<<<>>, TRUE>>, <<<<Clause("owner", "eq", <<1>>)>>, FALSE>>}}

NextSet ==
    \/ NewContext
    \/ ServeSet(Set, SetRqs, SetEnvs)

SpecSet == Init /\ [][NextSet]_vars

\* the existing rows of the request's filter scope, as Set loads them
Scope == Find(pre, ApplyFilters(ctx, NewQuery, inp.rq, inp.env).query)
Submitted == inp.rq.bodies

\* Set has loaded the scope: the gate, the parser and the guard let it pass
SetLoaded ==
    /\ Done /\ op = "Set"
    /\ \E i \in 1..Len(log) : log[i].kind = "store" /\ log[i].name = "Find"

\* every hook and every store call of the request succeeded
AllSucceeded == ret = NoError /\ \A i \in 1..Len(log) : log[i].ok

RowsOf(lg, name) == {lg[i].obj : i \in {j \in RowEvents(lg) : lg[j].name = name}}
NumberOf(lg, name) == Cardinality({j \in RowEvents(lg) : lg[j].name = name})

\* C3: in a Set whose hooks and store calls all succeed, every existing row
\* of the scope without an equivalent submitted entry is deleted, every
\* submitted entry without an equivalent existing row is created, and every
\* existing row with an equivalent submitted entry is neither deleted nor
\* re-created.
SetReconciles ==
    SetLoaded /\ AllSucceeded =>
        LET unmatchedRows == {j \in 1..Len(Scope) : ~itemExistsInSlice(Scope[j], Submitted)}
            unmatchedEntries == {k \in 1..Len(Submitted) :
                                    ~itemExistsInSlice(Submitted[k], Scope)}
        IN /\ \A j \in 1..Len(Scope) :
                 (j \in unmatchedRows) <=>
                     (\E d \in RowsOf(log, "Delete") : d.id = Scope[j].id)
           /\ NumberOf(log, "Create") = Cardinality(unmatchedEntries)
           /\ \A k \in unmatchedEntries :
                 \E n \in RowsOf(log, "Create") : n \in store /\ equal(Submitted[k], n)
           /\ \A j \in 1..Len(Scope) :
                 j \notin unmatchedRows =>
                     Scope[j] \in store /\ Scope[j] \notin RowsOf(log, "Create")

\* C4: a Set whose submitted array is exactly the set of rows stored in the
\* filter scope deletes nothing and creates nothing: it runs no delete or
\* create hook and leaves the store as it found it, so that repeating the
\* request meets the same state and does the same.
SetIdempotent ==
    /\ SetLoaded
    /\ Range(Submitted) = Range(Scope) /\ Len(Submitted) = Len(Scope)
    => /\ ret = NoError
       /\ store = pre
       /\ WriteEvents(log) = {} /\ RowEvents(log) = {} /\ HookEvents(log) = {}

\* the exact current state of a scope of two rows is submitted
CurrentStateSubmitted ==
    /\ SetLoaded
    /\ Len(Scope) = 2
    /\ Range(Submitted) = Range(Scope) /\ Len(Submitted) = Len(Scope)
    /\ store = pre /\ ret = NoError

(* ---------------------------------------- specification: lifecycle hooks *)
\* The mutating endpoints with every body the validation tags can accept or
\* refuse, while one hook or one store write fails, or while the permission
\* hook sets an Override and a before-hook assigns the same field.
HookBodies == {[ZeroObject EXCEPT !.owner = o, !.name = n] : o \in OwnerVals, n \in NameVals}
OwnerOverride == [ZeroObject EXCEPT !.owner = MaxVal - 1]
HookEnvs ==
    {[DefaultEnv EXCEPT !.fail = f, !.dbFail = d] :
        f \in {"none"} \cup HookNames, d \in {0, 1}}
    \cup {[DefaultEnv EXCEPT !.modelPerm = "allow", !.over = OwnerOverride,
                             !.mutHook = m, !.mutVal = 1] :
             m \in {"none", "OnBeforeCreate", "OnBeforeUpdate", "OnBeforeSave"}}
HookRqs == {[DefaultRq EXCEPT !.body = b, !.bodies = <<b, ValidBody>>, !.pk = 1,
                              !.method = m, !.return = r,
                              !.qs = <<Clause("owner", "eq", <<1>>)>>] :
               b \in HookBodies, m \in {"PATCH", "PUT"}, r \in BOOLEAN}

NextHooks ==
    \/ NewContext
    \/ ServeCreate(Create, HookRqs, HookEnvs)
    \/ ServeBatchCreate(BatchCreate, HookRqs, HookEnvs)
    \/ ServeUpdate(Update, HookRqs, HookEnvs)
    \/ ServeBatchUpdate(BatchUpdate, HookRqs, HookEnvs)
    \/ ServeDelete(Delete, HookRqs, HookEnvs)
    \/ ServeSet(Set, HookRqs, HookEnvs)

SpecHooks == Init /\ [][NextHooks]_vars

\* C7: a Create whose body violates the validation tags of k >= 1 fields ends
\* with exactly k entries in validation_error, with status 412 once
\* HandleError has processed the handler's error, and without an insert.
CreateInvalidIs412 ==
    /\ Done /\ op = "Create" /\ inp.rq.bodyOk /\ GateAllowed
    /\ inp.env.fail = "none" /\ inp.env.mutHook = "none"
    /\ Len(Struct(inp.rq.body)) >= 1
    => /\ Len(ctx.ValidationError) = Len(Struct(inp.rq.body))
       /\ ctx.Code = StatusPreconditionFailed
       /\ store = pre /\ WriteEvents(log) = {}

\* the rows a request has written with Create, Save or Updates
Persisted(lg) == {i \in RowEvents(lg) : lg[i].name \in {"Create", "Save", "Updates"}}

BeforeNames == {"OnBeforeCreate", "ValidateCreate", "OnBeforeUpdate", "ValidateUpdate",
                "Validate", "OnBeforeSave"}
BeforeEvents(lg) == {i \in HookEvents(lg) : lg[i].name \in BeforeNames}

\* C8: with an Override whose field X holds a non-zero V, every row that
\* Create, full Update or partial Update persists has X = V, whatever the
\* body or a before-hook gave to X; the before-hooks have all run when the
\* row is written.
OverrideWins ==
    Done /\ op \in {"Create", "Update"} /\ ctx.hasOverride =>
        \A i \in Persisted(log) :
            /\ \A f \in ColumnNames :
                  ctx.override[f] # 0 =>
                      /\ log[i].obj[f] = ctx.override[f]
                      /\ \E r \in store : r.id = log[i].obj.id /\ r[f] = ctx.override[f]
            /\ \A j \in BeforeEvents(log) : j < i

\* a PATCH whose body and whose before-update hook both give owner another
\* value than the Override
OverrideBeatsBodyAndHook ==
    /\ Done /\ op = "Update" /\ inp.rq.method = "PATCH"
    /\ ctx.hasOverride /\ ctx.override.owner = MaxVal - 1
    /\ inp.rq.body.owner = 1 /\ inp.env.mutHook = "OnBeforeUpdate"
    /\ ret = NoError /\ store # pre
    /\ \E r \in store : r.id = 1 /\ r.owner = MaxVal - 1

\* the hook event before event i among the events of set E (0: none)
Prev(E, i) ==
    LET before == {j \in E : j < i} IN
    IF before = {} THEN 0 ELSE CHOOSE j \in before : \A k \in before : k <= j

\* event i is event named n, successful
OkEvent(lg, i, n) == i # 0 /\ lg[i].name \in n /\ lg[i].ok

\* the before-phase rule for event i, its predecessor in the phase being p;
\* again: the endpoint calls the model's ValidateCreate once more after the
\* save callbacks
ChainStep(lg, i, p, again) ==
    /\ lg[i].name \in {"OnBeforeCreate", "OnBeforeUpdate"} =>
          \/ p = 0
          \/ OkEvent(lg, p, {"OnBeforeSave"})
          \/ again /\ OkEvent(lg, p, {"ValidateCreate"})
    /\ lg[i].name = "ValidateCreate" =>
          \/ OkEvent(lg, p, {"OnBeforeCreate"})
          \/ again /\ OkEvent(lg, p, {"OnBeforeSave"})
    /\ lg[i].name = "ValidateUpdate" => OkEvent(lg, p, {"OnBeforeUpdate"})
    /\ lg[i].name = "Validate" => OkEvent(lg, p, {"ValidateCreate", "ValidateUpdate"})
    /\ lg[i].name = "OnBeforeSave" => OkEvent(lg, p, {"Validate"})
    /\ /\ lg[i].ok /\ lg[i].name # "OnBeforeSave"
       /\ ~(again /\ OkEvent(lg, p, {"OnBeforeSave"}))
       => /\ i < Len(lg)
          /\ lg[i + 1].kind = "hook" /\ lg[i + 1].name \in BeforeNames

\* a before-callback that returned an error is the last thing the request did
FailureStops(lg, i) ==
    ~lg[i].ok =>
        /\ i = Len(lg)
        /\ ret # NoError
        /\ ret.Message = IF lg[i].name = "Validate"
                         THEN MessageValidationFailed ELSE lg[i].name
        /\ op \in {"Create", "Update", "BatchUpdate"} =>
              store = pre /\ WriteEvents(lg) = {}

AfterNames == {"OnAfterCreate", "OnAfterUpdate", "OnAfterDelete", "OnAfterSave"}
AfterEvents(lg) == {i \in HookEvents(lg) : lg[i].name \in AfterNames}

\* the store writes an after-hook of that name follows
WritesBefore(name) ==
    CASE name = "OnAfterCreate" -> {"Create"}
      [] name = "OnAfterUpdate" -> {"Save", "Updates"}
      [] name = "OnAfterDelete" -> {"Delete", "Updates"}
      [] OTHER -> {"Create", "Save", "Updates"}

\* C10: an after-hook is invoked for an object only after the store write
\* for that object has returned without error, and within the after phase
\* the operation's own callbacks run before the save callbacks.
AfterHooksFollowWrite ==
    Done =>
        \A i \in AfterEvents(log) :
            /\ \E j \in RowEvents(log) :
                  /\ j < i
                  /\ log[j].name \in WritesBefore(log[i].name)
                  /\ log[j].obj.id = log[i].obj.id
            /\ log[i].name = "OnAfterSave" =>
                  /\ OkEvent(log, i - 1, {"OnAfterCreate", "OnAfterUpdate"})
                  /\ log[i - 1].obj.id = log[i].obj.id
            /\ log[i].name \in {"OnAfterCreate", "OnAfterUpdate"} /\ log[i].ok =>
                  /\ i < Len(log)
                  /\ log[i + 1].kind = "hook" /\ log[i + 1].name = "OnAfterSave"

\* a Create that went through: insert, then OnAfterCreate, then OnAfterSave
CreateRunsAfterHooks ==
    /\ Done /\ op = "Create" /\ ret = NoError /\ store # pre
    /\ Len(log) >= 3
    /\ log[Len(log) - 2].kind = "row" /\ log[Len(log) - 2].name = "Create"
    /\ OkEvent(log, Len(log) - 1, {"OnAfterCreate"})
    /\ OkEvent(log, Len(log), {"OnAfterSave"})

(* ------------------------------------------ specification: single update *)
\* Update of one row by PATCH and by PUT: bodies over every combination of
\* present and absent fields (the key included), with and without an
\* Override, with model hooks that assign a field or fail, and store failures.
PatchBodies == Objects
NameOverride == [ZeroObject EXCEPT !.name = 1]
PatchEnvs ==
    {[DefaultEnv EXCEPT !.modelPerm = "allow", !.over = o, !.mutHook = m,
                        !.mutVal = MaxVal - 1] :
        o \in {ZeroObject, OwnerOverride, NameOverride},
        m \in {"none", "OnBeforeUpdate", "OnAfterUpdate"}}
    \cup {[DefaultEnv EXCEPT !.fail = f] : f \in {"OnBeforeUpdate", "OnAfterSave"}}
    \cup {[DefaultEnv EXCEPT !.dbFail = 1]}
PatchRqs == {[DefaultRq EXCEPT !.body = b, !.pk = k, !.method = m] :
                b \in PatchBodies, k \in Ids, m \in {"PATCH", "PUT"}}

NextPatch ==
    \/ NewContext
    \/ ServeUpdate(Update, PatchRqs, PatchEnvs)

SpecPatch == Init /\ [][NextPatch]_vars

\* the partial update of the request has written its row
PatchWritten ==
    /\ Done /\ op = "Update" /\ inp.rq.method = "PATCH"
    /\ \E i \in RowEvents(log) : log[i].name = "Updates"

\* the row as the request found it, and as the UPDATE left it
RowBefore == RowById(pre, inp.rq.pk)
RowAfter == log[CHOOSE i \in RowEvents(log) : log[i].name = "Updates"].obj

\* a before-update hook of the model assigned column f of the update object
AssignedByHook(f) ==
    f = "owner" /\ inp.env.mutHook \in {"OnBeforeUpdate", "ValidateUpdate", "OnBeforeSave"}

LimitArgs == {MinInt, -1, 0, 1, minLimit - 1, minLimit, minLimit + 1,
              maxLimit, maxLimit + 1, MaxInt}
PageArgs == {MinInt, -1, 0, 1, 2, MaxInt \div maxLimit + 1, MaxInt \div maxLimit + 2, MaxInt}
RecordArgs == {0, 1, minLimit - 1, minLimit, minLimit + 1, maxLimit - 1, maxLimit,
               maxLimit + 1, 2 * maxLimit + minLimit + 1, MaxInt}

\* `var p Pagination`
NewPagination ==
    /\ pc = "ready" /\ pagination # ZeroPagination
    /\ pagination' = ZeroPagination
    /\ op' = "none"
    /\ UNCHANGED <<store, pre, pc, ctx, ret, log, inp, resources, resource, sent, inflight, globals, sql>>

\* p.SetLimit(limit)
CallSetLimit ==
    /\ pc = "ready"
    /\ \E limit \in LimitArgs : pagination' = [pagination EXCEPT !.Limit = SetLimit(limit)]
    /\ op' = "SetLimit"
    /\ UNCHANGED <<store, pre, pc, ctx, ret, log, inp, resources, resource, sent, inflight, globals, sql>>

\* p.SetCurrentPage(page)
CallSetCurrentPage ==
    /\ pc = "ready"
    /\ \E page \in PageArgs :
          pagination' = [pagination EXCEPT !.Page = SetCurrentPage(page)]
    /\ op' = "SetCurrentPage"
    /\ UNCHANGED <<store, pre, pc, ctx, ret, log, inp, resources, resource, sent, inflight, globals, sql>>

\* p.Records = records; p.SetPages(), once per value as Paginate and
\* Pagination.Create do (a zero Limit divides by zero)
CallSetPages ==
    /\ pc = "ready" /\ pagination.Limit # 0 /\ pagination.Pages = 0
    /\ \E records \in RecordArgs :
          pagination' = SetPagesOf([pagination EXCEPT !.Records = records])
    /\ op' = "SetPages"
    /\ UNCHANGED <<store, pre, pc, ctx, ret, log, inp, resources, resource, sent, inflight, globals, sql>>

\* p.GetOffset(): GetPage stores the page it corrected
CallGetOffset ==
    /\ pc = "ready" /\ pagination.Page < 1
    /\ pagination' = [pagination EXCEPT !.Page = GetPage(@)]
    /\ op' = "GetOffset"
    /\ UNCHANGED <<store, pre, pc, ctx, ret, log, inp, resources, resource, sent, inflight, globals, sql>>

PageEnvs == {DefaultEnv}
PageRqs == {[DefaultRq EXCEPT !.page = pg, !.size = sz] :
               pg \in PageArgs, sz \in {0, minLimit + 1, maxLimit + 1}}

\* the table is full when the first request arrives
InitPage == Init /\ store = {r \in InitRows : r.owner = 1}

NextPage ==
    \/ NewContext
    \/ NewPagination
    \/ CallSetLimit
    \/ CallSetCurrentPage
    \/ CallSetPages
    \/ CallGetOffset
    \/ ServePaginate(Paginate, PageRqs, PageEnvs)

SpecPage == InitPage /\ [][NextPage]_vars

\* C13: after any sequence of SetLimit and SetCurrentPage calls with
\* arbitrary int arguments, Limit is in [10,100] and Page >= 1 (0 stands for
\* a field no call has set yet), and the offset (Page-1)*Limit is >= 0; every
\* Paginate request reports and uses a size in [10,100] and an offset
\* (Page-1)*Limit >= 0.
PaginationBounded ==
    /\ pagination.Limit # 0 => pagination.Limit \in minLimit..maxLimit
    /\ pagination.Page >= 0
    /\ pagination.Limit # 0 /\ pagination.Page # 0 =>
          /\ GetOffset(pagination.Page, pagination.Limit) >= 0
          /\ GetOffset(pagination.Page, pagination.Limit)
                = (pagination.Page - 1) * pagination.Limit
    /\ Done /\ op = "Paginate" /\ ret = NoError =>
          /\ ctx.Size \in minLimit..maxLimit
          /\ ctx.Page >= 1
          /\ ctx.Offset >= 0
          /\ ctx.Offset = (ctx.Page - 1) * ctx.Size

\* the number of pages that hold `records` rows at `limit` rows a page
PagesNeeded(records, limit) ==
    CHOOSE n \in 0..records : n * limit >= records /\ (n = 0 \/ (n - 1) * limit < records)

\* C14: after SetPages, Pages = max(1, ceil(Records/Limit)) for every
\* Records >= 0 and every Limit in [10,100].
PagesIsCeiling ==
    op = "SetPages" /\ pagination.Records >= 0
                    /\ pagination.Limit \in minLimit..maxLimit =>
        pagination.Pages = IF PagesNeeded(pagination.Records, pagination.Limit) < 1 THEN 1
                           ELSE PagesNeeded(pagination.Records, pagination.Limit)

\* SetPages rounded a partly filled last page up
LastPagePartlyFilled ==
    /\ op = "SetPages"
    /\ pagination.Records % pagination.Limit # 0
    /\ pagination.Pages >= 3
    /\ (pagination.Pages - 1) * pagination.Limit < pagination.Records

(* -------------------------------------------- specification: batch create *)
\* Handler.BatchCreate on arrays of one chunk and of two chunks, with at most
\* one item that the model's validation tags refuse
RefusedBody == [ValidBody EXCEPT !.owner = 0]
BatchOf(n, k) == [i \in 1..n |-> IF i = k THEN RefusedBody ELSE ValidBody]
BatchLens == {1, chunkSize, chunkSize + 1}
BatchRqs ==
    {[DefaultRq EXCEPT !.bodies = BatchOf(n, k), !.bodyOk = ok] :
        n \in BatchLens, k \in {0, 1, chunkSize, chunkSize + 1}, ok \in BOOLEAN}
BatchEnvs ==
    {[DefaultEnv EXCEPT !.modelPerm = p, !.fail = f, !.dbFail = d] :
        p \in {"allow", "deny"}, f \in {"none", "OnBeforeCreate"}, d \in {0, 1}}

NextBatch ==
    \/ NewContext
    \/ ServeBatchCreate(BatchCreate, BatchRqs, BatchEnvs)

SpecBatch == Init /\ [][NextBatch]_vars

\* index of the first item of the array that a before-hook refuses (0: none)
FirstRefused ==
    LET bad == {i \in 1..Len(inp.rq.bodies) : Struct(inp.rq.bodies[i]) # <<>>} IN
    IF inp.rq.bodies # <<>> /\ inp.env.fail = "OnBeforeCreate" THEN 1
    ELSE IF bad = {} THEN 0
    ELSE CHOOSE i \in bad : \A j \in bad : i <= j

\* C15: a batch create whose before-hook refuses an item of chunk c returns
\* that hook's error, and exactly the items of the chunks 1..c-1 have been
\* inserted: none of chunk c or of a later chunk, all of the earlier ones
ChunksBeforeFailureStay ==
    Done /\ op = "BatchCreate" /\ GateAllowed /\ inp.rq.bodyOk /\ FirstRefused # 0
    => /\ ret \notin {NoError, ErrorPanic}
       /\ NumberOf(log, "Create") = ((FirstRefused - 1) \div chunkSize) * chunkSize
       /\ RowsOf(log, "Create") \subseteq store

(* ----------------------------------------------- specification: aggregate *)
\* Handler.Aggregate under query strings of up to MaxClauses clauses, with
\* and without the unsafe parameter, a forced Condition, and an absent, a
\* malformed and a well-formed fields parameter
AggregateEnvs == {[DefaultEnv EXCEPT !.globalPerm = g, !.conds = cs] :
                     g \in {"absent", "deny"}, cs \in {<<>>, <<OwnerIsOne>>}}
AggregateRqs == {[DefaultRq EXCEPT !.qs = q, !.unsafe = u, !.fields = f] :
                    q \in SeqsUpTo(GuardClauses, MaxClauses), u \in BOOLEAN,
                    f \in {"", "bad", "id.count"}}

NextAggregate ==
    \/ NewContext
    \/ ServeAggregate(Aggregate, AggregateRqs, AggregateEnvs)

SpecAggregate == Init /\ [][NextAggregate]_vars

ScanEvents(lg) == {i \in 1..Len(lg) : lg[i].kind = "store" /\ lg[i].name = "Scan"}

MarkerTypes == {<<"restify", name>> : name \in FeatureNames}
PlainTypes == {<<"string">>, <<"time", "Time">>}
Models == {[table |-> "product", types |-> m \cup PlainTypes] : m \in SUBSET MarkerTypes}

CallUseModel ==
    /\ pc = "ready"
    /\ \E model \in Models :
          LET u == UseModel(model, resources) IN
          /\ resource' = u.resource
          /\ resources' = u.resources
    /\ op' = "UseModel"
    /\ UNCHANGED <<store, pre, pc, ctx, ret, log, inp, pagination, sent, inflight, globals, sql>>

InitRegister == Init /\ store = {}
NextRegister == CallUseModel
SpecRegister == InitRegister /\ [][NextRegister]_vars

Carries(name) == <<"restify", name>> \in resource.Instance.types
HandlersOf(res) == {res.Actions[i].Handler : i \in 1..Len(res.Actions)}
Registered == resource.Table \in DOMAIN resources /\ resources[resource.Table] = resource

\* the endpoint set of a model with the API marker, without Aggregate
EndpointsButAggregate ==
    {"ModelInfo"}
    \cup (IF Carries("DisableList") THEN {} ELSE {"All", "Paginate", "Get"})
    \cup (IF Carries("DisableCreate") THEN {} ELSE {"Create", "BatchCreate"})
    \cup (IF Carries("DisableUpdate") THEN {} ELSE {"Update", "BatchUpdate"})
    \cup (IF Carries("DisableDelete") THEN {} ELSE {"Delete", "BatchDelete"})
    \cup (IF Carries("DisableSet") THEN {} ELSE {"Set"})

\* C18: UseModel on a model with the API marker generates exactly ModelInfo,
\* the list, create, update, delete and Set endpoints that are not disabled,
\* and Aggregate unless DisableAggregate, one endpoint each, and enters the
\* resource in the registry; a model without the marker gets no endpoint and
\* is not entered
EndpointsFollowFeatures ==
    op = "UseModel"
    => IF Carries("API")
       THEN /\ HandlersOf(resource)
                 = EndpointsButAggregate
                     \cup (IF Carries("DisableAggregate") THEN {} ELSE {"Aggregate"})
            /\ Len(resource.Actions) = Cardinality(HandlersOf(resource))
            /\ Registered
       ELSE resource.Actions = <<>> /\ ~Registered

(* ------------------------------------------- specification: the transport *)
\* Endpoint.handler on endpoints bound to a handler method or to none, for
\* requests on present and absent keys, permitted and refused
BoundHandlers == {"none", "ModelInfo", "Get", "Create"}
EndpointRqs == {[DefaultRq EXCEPT !.body = ValidBody, !.pk = k] : k \in Ids}
EndpointEnvs == {[DefaultEnv EXCEPT !.modelPerm = p] : p \in {"allow", "deny"}}

\* Endpoint.handler: request.Write("test") and return nil are its first two
\* statements, so no Context is built and the bound handler is not called
EndpointHandler ==
    /\ pc = "ready"
    /\ \E h \in BoundHandlers, rq \in EndpointRqs, env \in EndpointEnvs :
          inp' = [rq |-> rq, env |-> env, handler |-> h]
    /\ sent' = [Status |-> StatusOK, Body |-> Text("test")]
    /\ op' = "handler"
    /\ UNCHANGED <<store, pre, pc, ctx, ret, log, pagination, resources, resource,
                   inflight, globals, sql>>

NextEndpoint == EndpointHandler
SpecEndpoint == Init /\ [][NextEndpoint]_vars

\* what the handler bound to the endpoint returns for the request
Bound ==
    CASE inp.handler = "ModelInfo" -> ModelInfo(store, inp.rq, inp.env)
      [] inp.handler = "Get" -> Get(store, inp.rq, inp.env)
      [] inp.handler = "Create" -> Create(store, inp.rq, inp.env)
      [] OTHER -> R(store, NewCtx, <<>>, ErrorHandlerNotFound)

\* C19: the response to a request is the JSON envelope; when the bound handler
\* returns an error (or none is bound) it has success = false, the error's
\* message, data, size, page, total, total_pages and offset zeroed, and the
\* status is the error's code; when the handler returns no error and recorded
\* no validation error, the status is 200 and success = true
ResponseIsEnvelope ==
    op = "handler"
    => /\ sent.Body.kind = "json"
       /\ sent.Body.value = PrepareResponse(HandleError(Bound.c, Bound.err))
       /\ IF Bound.err # NoError
          THEN /\ sent.Status = Bound.err.Code
               /\ ~sent.Body.value.success
               /\ sent.Body.value.error = Bound.err.Message
               /\ sent.Body.value.data = <<>>
               /\ \A f \in {"size", "current_page", "total", "total_pages", "offset"} :
                     sent.Body.value[f] = 0
          ELSE Bound.c.ValidationError = <<>>
               => sent.Status = StatusOK /\ sent.Body.value.success

(* -------------------------------------------- specification: single delete *)
\* Handler.Delete on present and absent keys, for a model with and without
\* the Delete(bool) method, with delete hooks that fail or assign a field and
\* a store that fails
DeleteRqs == {[DefaultRq EXCEPT !.pk = k, !.method = "DELETE"] : k \in Ids}
DeleteEnvs ==
    {[DefaultEnv EXCEPT !.modelPerm = p, !.soft = s, !.fail = f, !.dbFail = d] :
        p \in {"allow", "deny"}, s \in BOOLEAN,
        f \in {"none", "OnBeforeDelete", "OnAfterDelete"}, d \in {0, 1}}
    \cup {[DefaultEnv EXCEPT !.soft = s, !.mutHook = "OnBeforeDelete",
                             !.mutVal = MaxVal - 1] : s \in BOOLEAN}

NextDelete ==
    \/ NewContext
    \/ ServeDelete(Delete, DeleteRqs, DeleteEnvs)

SpecDelete == Init /\ [][NextDelete]_vars

\* the row the request names, as it was when the request entered
Target == RowById(pre, inp.rq.pk)
BeforeDeleteRan(ok) ==
    {i \in HookEvents(log) : log[i].name = "OnBeforeDelete" /\ log[i].ok = ok}

ConcRqs == {[DefaultRq EXCEPT !.body = b] : b \in {ValidBody, RefusedBody}}
ConcEnvs == {[DefaultEnv EXCEPT !.modelPerm = p, !.conds = cs, !.over = o] :
                p \in {"allow", "deny"}, cs \in {<<>>, <<OwnerIsOne>>},
                o \in {ZeroObject, OwnerOverride}}

ContextAt(p) == inflight.contexts[ContextOf(p)]
Moved(p, q, c) ==
    /\ inflight' = [inflight EXCEPT !.req[p] = q, !.contexts[ContextOf(p)] = c]
    /\ UNCHANGED <<pre, pc, op, ctx, ret, log, inp, pagination, resources, resource,
                   sent, globals, sql>>

\* Endpoint.handler builds the Context of the request
Enter ==
    \E p \in Procs, rq \in ConcRqs, env \in ConcEnvs :
       /\ inflight.req[p].at = "idle"
       /\ Moved(p, [Idle EXCEPT !.at = "gate", !.rq = rq, !.env = env], NewCtx)
       /\ UNCHANGED store

\* context.RestPermission(PermissionCreate, object)
Gate ==
    \E p \in Procs :
       LET q == inflight.req[p]
           r == RestPermission(ContextAt(p), <<>>, q.env)
       IN /\ q.at = "gate"
          /\ Moved(p, IF r.allow THEN [q EXCEPT !.at = "before"]
                      ELSE [q EXCEPT !.at = "handle",
                                     !.ret = globals.errors.ErrorPermissionDenied],
                   r.c)
          /\ UNCHANGED store

\* callBeforeCreateHook(ptr, context); context.applyOverrides(object)
Before ==
    \E p \in Procs :
       LET q == inflight.req[p]
           b == callBeforeCreateHook(q.rq.body, ContextAt(p), <<>>, q.env)
       IN /\ q.at = "before"
          /\ Moved(p, IF b.err # NoError THEN [q EXCEPT !.at = "handle", !.ret = b.err]
                      ELSE [q EXCEPT !.at = "write", !.obj = applyOverrides(b.c, b.obj)],
                   b.c)
          /\ UNCHANGED store

\* dbo.Create(ptr); callAfterCreateHook(ptr, context); Response.Data = ptr
Write ==
    \E p \in Procs :
       LET q == inflight.req[p]
           w == dbCreate(store, <<>>, q.obj, q.env)
           a == callAfterCreateHook(w.obj, ContextAt(p), w.log, q.env)
       IN /\ q.at = "write"
          /\ store' = w.store
          /\ IF ~w.ok
             THEN Moved(p, [q EXCEPT !.at = "handle", !.ret = StoreError], ContextAt(p))
             ELSE Moved(p, [q EXCEPT !.at = "handle", !.ret = a.err, !.obj = a.obj],
                        IF a.err # NoError THEN a.c ELSE [a.c EXCEPT !.Data = <<a.obj>>])

\* context.HandleError(action.Handler(context))
Handle ==
    \E p \in Procs :
       LET q == inflight.req[p] IN
       /\ q.at = "handle"
       /\ Moved(p, [q EXCEPT !.at = "done"], HandleError(ContextAt(p), q.ret))
       /\ UNCHANGED store

\* the response is written and the Context dropped
Leave ==
    \E p \in Procs :
       /\ inflight.req[p].at = "done"
       /\ Moved(p, Idle, NewCtx)
       /\ UNCHANGED store

InitConc == Init /\ store = {}
NextConc == Enter \/ Gate \/ Before \/ Write \/ Handle \/ Leave
SpecConc == InitConc /\ [][NextConc]_vars

\* the Context request q has when it is served with no other request around,
\* up to the data the table gave it
Gated(q) == RestPermission(NewCtx, <<>>, q.env)
Hooked(q) == callBeforeCreateHook(q.rq.body, Gated(q).c, <<>>, q.env)
Alone(q) ==
    CASE q.at \in {"idle", "gate"} -> NewCtx
      [] q.at = "before" -> Gated(q).c
      [] q.at = "write" -> Hooked(q).c
      [] OTHER ->
           LET c == IF ~Gated(q).allow THEN Gated(q).c ELSE Hooked(q).c
               d == IF q.ret = NoError THEN [c EXCEPT !.Data = <<q.obj>>] ELSE c
           IN IF q.at = "done" THEN HandleError(d, q.ret) ELSE d

Paths == {"list", "aggregate"}

SqlInputs ==
    [path : Paths,
     column : {"", "column", "word", "hostile"},
     value : {"hostile"},
     order : {""} \cup UserStrings,
     dir : {"", "asc", "other"},
     group_by : {""} \cup UserStrings,
     fields : {""} \cup UserStrings]

\* GET /all and GET /aggregate: the query is built from the request
BuildQuery(Builder(_), path) ==
    /\ pc = "ready"
    /\ \E in \in {i \in SqlInputs : i.path = path} :
          /\ sql' = Builder(in)
          /\ inp' = in
    /\ pc' = "done"
    /\ op' = path
    /\ UNCHANGED <<store, pre, ctx, ret, log, pagination, resources, resource,
                   sent, inflight, globals>>

InitSql == Init /\ store = {}

NextSql ==
    \/ NewContext
    \/ BuildQuery(ApplyFiltersSql, "list")
    \/ BuildQuery(AggregateSql, "aggregate")

SpecSql == InitSql /\ [][NextSql]_vars

\* the text of a piece is safe in SQL: a parameter, or a quoted name of the
\* schema or of the whitelist of word characters
Validated(p) ==
    \/ p.form = "bound"
    \/ p.form = "quoted" /\ columnNameRegex(p.text)

\* C22: every string of the request that ends up in the SQL text is matched
\* against the schema or a whitelist and quoted as an identifier, or the
\* request is rejected; values are passed as parameters only.
UserTextValidatedOrRejected ==
    (pc = "done" /\ op \in Paths /\ ~sql.rejected)
        => \A p \in sql.pieces : Validated(p)


(* --------------------------------------- specification: batch update return *)
\* PUT /batch?return=1 under filters and bodies that name the same column
\* and different ones.
ReturnClauses == {<<>>, <<Clause("owner", "eq", <<1>>)>>, <<Clause("name", "eq", <<1>>)>>}
ReturnBodies == {[ZeroObject EXCEPT !.owner = 1], [ZeroObject EXCEPT !.owner = 2],
                 [ZeroObject EXCEPT !.name = 1]}
ReturnRqs == {[DefaultRq EXCEPT !.qs = q, !.body = b, !.return = r, !.unsafe = TRUE] :
                 q \in ReturnClauses, b \in ReturnBodies, r \in BOOLEAN}
ReturnEnvs == {[DefaultEnv EXCEPT !.fail = f] : f \in {"none", "OnAfterUpdate"}}

NextReturn ==
    \/ NewContext
    \/ ServeBatchUpdate(BatchUpdate, ReturnRqs, ReturnEnvs)

SpecReturn == Init /\ [][NextReturn]_vars

\* how many times the hook ran on the object
HookRuns(lg, name, obj) ==
    Cardinality({i \in HookEvents(lg) : lg[i].name = name /\ lg[i].obj = obj})

\* C23: a BatchUpdate with the return parameter responds with exactly the
\* rows the update modified, in their state after the update, whatever the
\* filter and the body; the after-update and after-get hooks run once for
\* each of these rows.
ReturnsUpdatedRows ==
    (Done /\ op = "BatchUpdate" /\ inp.rq.return /\ ret = NoError) =>
        LET updated == RowsOf(log, "Updates") IN
        /\ {ctx.Data[i] : i \in 1..Len(ctx.Data)} = updated
        /\ Len(ctx.Data) = Cardinality(updated)
        /\ \A r \in updated : /\ HookRuns(log, "OnAfterUpdate", r) = 1
                              /\ HookRuns(log, "OnAfterGet", r) = 1


(* ------------------------------------------ specification: malformed filter *)
\* the first clause of the query string the mapper stops at, if any
Malformed(qs) == \E i \in 1..Len(qs) : InvalidClause(qs[i])

\* C24: a request whose filter holds a clause with an unknown operator or an
\* unknown column is answered with status 400 (bad request), not with the
\* status 500 of store failures and hook errors.
MalformedFilterIsBadRequest ==
    (Done /\ op \in {"All", "Paginate", "BatchUpdate", "BatchDelete", "Aggregate"}
          /\ GateAllowed /\ Malformed(inp.rq.qs))
        => /\ ret # NoError
           /\ ret.Code = StatusBadRequest
           /\ ctx.Code = StatusBadRequest


(* ------------------------------------------- specification: filter mapping *)
\* what filterMapper makes of the request's query string
Mapped == filterMapper(inp.rq.qs, ctx, NewQuery, inp.env)

\* the clause is handled by the RestFilter method of its column's type
CustomClause(filter, env) == env.restFilter /\ filter.column = "name"

\* C25: filterMapper never returns success with part of the predicates left
\* out: whatever the order of plain clauses and RestFilter clauses in the
\* query string, when it returns no error every plain clause and every forced
\* Condition is a predicate of the query.
MapperAppliesEveryPredicate ==
    (Done /\ op \in {"All", "Paginate", "BatchUpdate", "BatchDelete", "Aggregate"}
          /\ GateAllowed /\ Mapped.err = NoError)
        => /\ \A i \in 1..Len(inp.rq.qs) :
                 LET filter == inp.rq.qs[i] IN
                 CustomClause(filter, inp.env)
                    \/ Pred(filter.column, filter.condition, filter.value, "user")
                          \in Mapped.query.where
           /\ \A k \in 1..Len(ctx.Conditions) :
                 CondPred(ctx.Conditions[k]) \in Mapped.query.where


(* --------------------------------- specification: validation errors in hooks *)
\* Create, Update, BatchCreate and Set with a before-hook of the model that
\* records a validation error on the Context and then returns nil or an error.
NoteHooks == {"OnBeforeCreate", "ValidateCreate", "OnBeforeSave", "OnBeforeUpdate",
              "ValidateUpdate"}
NoteEnvs == {DefaultEnv}
            \cup {[DefaultEnv EXCEPT !.noteHook = h, !.fail = IF f THEN h ELSE "none"] :
                     h \in NoteHooks, f \in BOOLEAN}
NoteRqs == {[DefaultRq EXCEPT !.body = b, !.bodies = bs, !.pk = 1, !.method = m,
                              !.unsafe = TRUE] :
               b \in {ValidBody, RefusedBody},
               bs \in {<<ValidBody>>, <<ValidBody, [ValidBody EXCEPT !.owner = 2]>>},
               m \in {"PATCH", "PUT"}}

NextNote ==
    \/ NewContext
    \/ ServeCreate(Create, NoteRqs, NoteEnvs)
    \/ ServeBatchCreate(BatchCreate, NoteRqs, NoteEnvs)
    \/ ServeUpdate(Update, NoteRqs, NoteEnvs)
    \/ ServeSet(Set, NoteRqs, NoteEnvs)

SpecNote == Init /\ [][NextNote]_vars

\* the runs of the before-hook that recorded a validation error
Noted(lg) == {i \in HookEvents(lg) : lg[i].name = inp.env.noteHook}
            \cup {i \in HookEvents(lg) : lg[i].name = "Validate" /\ ~lg[i].ok}

\* C26: when a before-hook records validation errors on the Context during
\* Create, Update, BatchCreate or Set, the object it ran on is not written to
\* the store, whether the hook then returns an error or nil.
NotedObjectNotWritten ==
    (Done /\ op \in {"Create", "Update", "BatchCreate", "Set"}) =>
        \A i \in Noted(log) :
            \A j \in WriteEvents(log) :
                j > i => (~log[j].ok \/ log[j].name = "Delete")


(* ------------------------------------------ specification: Set decisions *)
\* the membership decisions a Set took: the rows it chose to delete and the
\* number of entries it chose to create (each runs its before-hook once)
SetDecisions(lg) ==
    [deleted |-> {lg[i].obj.id : i \in {j \in HookEvents(lg) : lg[j].name = "OnBeforeDelete"}},
     created |-> Cardinality({j \in HookEvents(lg) : lg[j].name = "OnBeforeCreate"})]

\* the same request on the same table while no hook assigns to its object
WithoutMutation == Set(pre, inp.rq, [inp.env EXCEPT !.mutHook = "none"])

\* C27: the decisions of a Set (delete or keep for every existing row, create
\* or skip for every submitted entry) depend on the rows as loaded and on the
\* body as parsed only: a hook that assigns to the object it receives changes
\* no decision.
DecisionsIgnoreHookMutation ==
    (SetLoaded /\ ret = NoError) => SetDecisions(log) = SetDecisions(WithoutMutation.log)


(* --------------------------------------------- specification: Set passes *)
\* Set while a create hook, the validation of an entry or a store write fails.
PassEntries == NewEntries \cup {RefusedBody} \cup {r \in InitRows : r.id = 1 /\ r.owner = 1}
PassRqs == {[DefaultRq EXCEPT !.bodies = b, !.unsafe = TRUE] :
               b \in SeqsUpTo(PassEntries, MaxBatch)}
PassEnvs == {[DefaultEnv EXCEPT !.fail = f, !.dbFail = d] :
                f \in {"none", "OnBeforeCreate", "ValidateCreate", "OnBeforeSave"},
                d \in 0..(MaxId + MaxBatch)}

NextPasses ==
    \/ NewContext
    \/ ServeSet(Set, PassRqs, PassEnvs)

SpecPasses == Init /\ [][NextPasses]_vars

\* the events of the deletion pass and of the creation pass
DeletionEvents(lg) ==
    {i \in 1..Len(lg) : lg[i].name \in {"OnBeforeDelete", "Delete", "OnAfterDelete"}}
CreationEvents(lg) ==
    {i \in 1..Len(lg) : lg[i].name \in {"OnBeforeCreate", "ValidateCreate", "Validate",
                                        "OnBeforeSave", "Create", "OnAfterCreate",
                                        "OnAfterSave"}}

\* the before-create chain, the validation or the insert of an entry failed
CreationFailed(lg) ==
    \E i \in CreationEvents(lg) :
        /\ ~lg[i].ok
        /\ lg[i].name \in {"OnBeforeCreate", "ValidateCreate", "Validate",
                           "OnBeforeSave", "Create"}

BatchUndisturbed ==
    /\ Done /\ op = "BatchCreate" /\ GateAllowed /\ inp.rq.bodyOk
    /\ Len(inp.rq.bodies) >= 1
    /\ FirstRefused = 0 /\ inp.env.dbFail = 0

\* the number of chunks of at most chunkSize items that hold n items
ChunksOf(n) == (n + chunkSize - 1) \div chunkSize

InsertEvents(lg) == {i \in 1..Len(lg) : lg[i].kind = "store" /\ lg[i].name = "Create"}

\* C29: a batch create of N >= 1 items with no failing hook and no store
\* error ends successfully: every submitted item is inserted exactly once, in
\* ceil(N/100) inserts of at most 100 items, and the response data holds all
\* N items.
BatchCreateInsertsAll ==
    BatchUndisturbed =>
        /\ ret = NoError /\ ctx.Success
        /\ NumberOf(log, "Create") = Len(inp.rq.bodies)
        /\ Cardinality(InsertEvents(log)) = ChunksOf(Len(inp.rq.bodies))
        /\ Len(ctx.Data) = Len(inp.rq.bodies)

\* the events of the request's first chunk: the before-create chain of its
\* items, its insert, the after-hooks of its items
ChunkBefore(lg) == {i \in HookEvents(lg) : lg[i].name = "OnBeforeCreate"}
ChunkAfter(lg) == {i \in HookEvents(lg) : lg[i].name \in {"OnAfterCreate", "OnAfterGet"}}
FirstChunk == IF Len(inp.rq.bodies) < chunkSize THEN Len(inp.rq.bodies) ELSE chunkSize

\* C30: in a chunk of a batch create the before-create chain and the
\* override are applied to every item before the chunk's single insert, and
\* the after-create and after-get hooks run for every item after the insert
\* succeeded, on the objects as inserted.
ChunkEventsOrdered ==
    (BatchUndisturbed /\ Len(inp.rq.bodies) <= chunkSize) =>
        /\ Cardinality(ChunkBefore(log)) = FirstChunk
        /\ Cardinality(InsertEvents(log)) = 1
        /\ \A i \in InsertEvents(log) :
              /\ log[i].ok
              /\ \A b \in ChunkBefore(log) : b < i
              /\ \A a \in ChunkAfter(log) : i < a
        /\ \A r \in RowsOf(log, "Create") :
              /\ HookRuns(log, "OnAfterCreate", r) >= 1
              /\ HookRuns(log, "OnAfterGet", r) >= 1
        /\ \A a \in ChunkAfter(log) : log[a].obj \in RowsOf(log, "Create")


(* ---------------------------------------- specification: handler skeleton *)
\* The six mutating handlers under a body that parses or does not, a gate
\* that allows or denies, one failing hook and one failing store write.
StepEnvs == {[DefaultEnv EXCEPT !.globalPerm = g] : g \in {"absent", "allow", "deny"}}
            \cup {[DefaultEnv EXCEPT !.globalPerm = "allow", !.fail = f, !.dbFail = d,
                                     !.soft = s] :
                     f \in {"none"} \cup HookNames, d \in {0, 1}, s \in BOOLEAN}
StepRqs == {[DefaultRq EXCEPT !.body = b, !.bodies = <<b, ValidBody>>, !.bodyOk = ok,
                              !.pk = 1, !.method = m, !.return = r, !.unsafe = TRUE] :
               b \in {ValidBody, RefusedBody}, ok \in BOOLEAN, m \in {"PATCH", "PUT"},
               r \in BOOLEAN}

NextSteps ==
    \/ NewContext
    \/ ServeCreate(Create, StepRqs, StepEnvs)
    \/ ServeBatchCreate(BatchCreate, StepRqs, StepEnvs)
    \/ ServeUpdate(Update, StepRqs, StepEnvs)
    \/ ServeBatchUpdate(BatchUpdate, StepRqs, StepEnvs)
    \/ ServeDelete(Delete, StepRqs, StepEnvs)
    \/ ServeSet(Set, StepRqs, StepEnvs)

SpecSteps == Init /\ [][NextSteps]_vars

Mutating == {"Create", "BatchCreate", "Update", "BatchUpdate", "Delete", "Set"}

\* the step of the skeleton an event of the log belongs to: Authorize 1,
\* BeforeHooks 2, MutateStore 3, AfterHooks 4 (0: a read, a row of a write)
StepOf(e) ==
    IF e.kind = "perm" THEN 1
    ELSE IF e.kind = "hook" /\ e.name \in BeforeNames \cup {"OnBeforeDelete"} THEN 2
    ELSE IF e.kind = "store" /\ e.name \in WriteNames THEN 3
    ELSE IF e.kind = "hook" THEN 4
    ELSE 0
StepEvents(lg) == {i \in 1..Len(lg) : StepOf(lg[i]) # 0}

\* no event of a later step precedes an event of an earlier step; in Set,
\* whose passes handle one object after the other, a before-hook may follow
\* the after-hooks of the object before
LaterStepsFollow ==
    \A i, j \in StepEvents(log) :
        i < j => \/ StepOf(log[i]) <= StepOf(log[j])
                 \/ op = "Set" /\ StepOf(log[i]) >= 2 /\ StepOf(log[j]) >= 2
InOnePass ==
    \A i, j \in StepEvents(log) :
        (i < j /\ \A k \in StepEvents(log) : ~(i < k /\ k < j))
            => \/ StepOf(log[i]) <= StepOf(log[j])
               \/ op = "Set" /\ StepOf(log[i]) = 4 /\ StepOf(log[j]) = 2

\* the step that failed is the last one executed, and the handler failed
StopsAtFailure ==
    \A i \in StepEvents(log) :
        ~log[i].ok => /\ \A j \in StepEvents(log) : j <= i
                      /\ ret # NoError /\ ~ctx.Success

\* the body did not parse: nothing from BeforeHooks on is executed
ParseFailureStops ==
    (~inp.rq.bodyOk /\ op # "Delete") =>
        /\ \A i \in StepEvents(log) : StepOf(log[i]) = 1
        /\ ret # NoError /\ ~ctx.Success /\ store = pre

TagBodies == {[ZeroObject EXCEPT !.owner = o, !.name = n] :
                 o \in {0, 1, MaxVal}, n \in NameVals}
TagRqs == {[DefaultRq EXCEPT !.body = b, !.zeroed = z, !.pk = 1, !.method = m] :
              b \in TagBodies, m \in {"PATCH", "PUT"},
              z \in {{}, {"name"}, {"owner"}}}
TagEnvs == {DefaultEnv}

NextTags ==
    \/ NewContext
    \/ ServeCreate(Create, TagRqs, TagEnvs)
    \/ ServeUpdate(Update, TagRqs, TagEnvs)

SpecTags == Init /\ [][NextTags]_vars

\* the runs of the tag validation in the request
TagChecks(lg) == {i \in HookEvents(lg) : lg[i].name = "Validate"}

\* the request validates every tagged field / the non-zero fields only
FullValidation == op = "Create" \/ (op = "Update" /\ inp.rq.method = "PUT")

\* C32: tag validation checks every tagged field, the zero-valued ones
\* included, in Create and in full Update, and the non-zero fields of the
\* parsed body only in partial Update.
ValidationFullOrPartial ==
    (Done /\ op \in {"Create", "Update"}) =>
        \A i \in TagChecks(log) :
            /\ FullValidation => (log[i].ok <=> Struct(log[i].obj) = <<>>)
            /\ ~FullValidation => (log[i].ok <=> StructNonZeroFields(log[i].obj) = <<>>)


(* ------------------------------------------- specification: equivalence *)
\* Two records of a model that has an integer field, a string field, a
\* field holding a slice of strings and a nested struct.
Words == {<<"a">>, <<"b">>, <<"a", " ", "b">>}
Articles ==
    [Id : {IntField(n) : n \in 0..MaxId},
     Title : {StringField(w) : w \in {<<>>} \cup Words},
     Tags : {SliceField(TRUE, <<>>), SliceField(FALSE, <<>>)}
            \cup {SliceField(FALSE, <<w>>) : w \in Words}
            \cup {SliceField(FALSE, <<<<"a">>, <<"b">>>>)},
     Author : {StructField(n) : n \in 0..1}]

\* equal(val1, val2), with the results of equal(val2, val1) and equal(val1, val1)
CompareRecords(Equal(_, _), Recs) ==
    /\ pc = "ready"
    /\ \E a \in Recs, b \in Recs :
          inp' = [val1 |-> a, val2 |-> b, equal |-> Equal(a, b),
                  swapped |-> Equal(b, a), self |-> Equal(a, a)]
    /\ pc' = "done"
    /\ op' = "equal"
    /\ UNCHANGED <<store, pre, ctx, ret, log, pagination, resources, resource,
                   sent, inflight, globals, sql>>

InitEqual == Init /\ store = {}

NextEqual ==
    \/ NewContext
    \/ CompareRecords(equalStructs, Articles)

SpecEqual == InitEqual /\ [][NextEqual]_vars

\* C33: two records are equivalent exactly when every non-struct field that
\* is non-zero in both has the same value in both; a field that is zero on
\* either side and a nested struct never make them differ; the relation is
\* reflexive and symmetric.
EqualIsFieldEquality ==
    (Done /\ op = "equal") =>
        /\ inp.equal <=>
              \A f \in DOMAIN inp.val1 :
                  (/\ inp.val1[f].kind # "struct"
                   /\ ~IsZero(inp.val1[f]) /\ ~IsZero(inp.val2[f]))
                      => inp.val1[f] = inp.val2[f]
        /\ inp.self
        /\ inp.swapped = inp.equal


(* ----------------------------------- specification: Set duplicate entries *)
\* two submitted entries that are equivalent to each other and to no row of
\* the scope
DuplicateEntries ==
    {p \in (1..Len(Submitted)) \X (1..Len(Submitted)) :
        /\ p[1] < p[2]
        /\ equal(Submitted[p[1]], Submitted[p[2]])
        /\ ~itemExistsInSlice(Submitted[p[1]], Scope)
        /\ ~itemExistsInSlice(Submitted[p[2]], Scope)}

\* C34: Set creates at most one row for a group of submitted entries that
\* are equivalent to each other: when no equivalent row exists, exactly one
\* row is created for them.
SetCreatesOncePerGroup ==
    (SetLoaded /\ AllSucceeded) =>
        \A p \in DuplicateEntries :
            Cardinality({i \in RowEvents(log) :
                            /\ log[i].name = "Create"
                            /\ equal(log[i].obj, Submitted[p[1]])
                            /\ equal(log[i].obj, Submitted[p[2]])}) = 1


(* -------------------------------------- specification: Pagination.Create *)
\* p.Create(model, &rows, request) on a fresh Pagination, for tables of
\* every size and limit and page parameters around the bounds.
CreatePages == {MinInt, 0, 1, 2, 3}

CallCreate ==
    /\ pc = "ready" /\ pagination = ZeroPagination
    /\ \E total \in RecordArgs, limit \in LimitArgs, page \in CreatePages :
          LET r == PaginationCreate(pagination, total, limit, page) IN
          /\ pagination' = r.p
          /\ inp' = [total |-> total, limit |-> limit, page |-> page, query |-> r.query]
    /\ op' = "Pagination.Create"
    /\ UNCHANGED <<store, pre, pc, ctx, ret, log, resources, resource, sent, inflight,
                   globals, sql>>

NextCreatePage ==
    \/ NewPagination
    \/ CallCreate

SpecCreatePage == InitPage /\ [][NextCreatePage]_vars

\* C35: in Pagination.Create the LIMIT of the executed query is the clamped
\* Limit of the Pagination, in [10,100], from which the offset and the page
\* count are computed, so the next page starts where this one ends.
CreateLimitIsClamped ==
    op = "Pagination.Create" =>
        /\ pagination.Limit \in minLimit..maxLimit
        /\ inp.query.limit = pagination.Limit
        /\ inp.query.offset = (pagination.Page - 1) * pagination.Limit
        /\ GetOffset(pagination.Page + 1, pagination.Limit)
              = inp.query.offset + inp.query.limit


\* C36: in every successful Paginate response the page metadata is
\* consistent: 1 <= current_page <= total_pages, total_pages is
\* max(1, ceil(total / size)), offset is (current_page - 1) * size, and at
\* most size rows are returned.
CeilDiv(a, b) == IF a % b = 0 THEN a \div b ELSE (a \div b) + 1

PageMetadataConsistent ==
    Done /\ op = "Paginate" /\ ret = NoError =>
        /\ 1 <= ctx.Page /\ ctx.Page <= ctx.TotalPages
        /\ ctx.TotalPages = (IF CeilDiv(ctx.Total, ctx.Size) < 1 THEN 1
                             ELSE CeilDiv(ctx.Total, ctx.Size))
        /\ ctx.Offset = (ctx.Page - 1) * ctx.Size
        /\ Len(ctx.Data) <= ctx.Size


(* ------------------------------------------- specification: between filter *)
\* Requests whose query string holds between clauses of one, two and three
\* members, with and without a member that is no date, next to a plain
\* clause, on every handler that maps the query string.
BetweenClauses == {Clause("owner", "between", <<1>>),
                   Clause("owner", "between", <<1, 2>>),
                   Clause("owner", "between", <<1, 2, 3>>),
                   Clause("owner", "between", <<NotATime, 2>>),
                   Clause("owner", "between", <<1, NotATime>>),
                   Clause("name", "eq", <<1>>)}
BetweenEnvs == {[DefaultEnv EXCEPT !.modelPerm = "allow", !.conds = cs] :
                   cs \in {<<>>, <<OwnerIsOne>>}}
BetweenRqs == {[DefaultRq EXCEPT !.qs = q, !.pk = k, !.unsafe = TRUE,
                                 !.body = [ZeroObject EXCEPT !.owner = MaxVal - 1],
                                 !.bodies = <<ValidBody>>, !.fields = "id.count"] :
                  q \in SeqsUpTo(BetweenClauses, MaxClauses), k \in {1, MaxId}}

NextBetween ==
    \/ NewContext
    \/ ServeUpdate(Update, BetweenRqs, BetweenEnvs)
    \/ ServeBatchUpdate(BatchUpdate, BetweenRqs, BetweenEnvs)
    \/ ServeDelete(Delete, BetweenRqs, BetweenEnvs)
    \/ ServeBatchDelete(BatchDelete, BetweenRqs, BetweenEnvs)
    \/ ServeGet(Get, BetweenRqs, BetweenEnvs)
    \/ ServeAll(All, BetweenRqs, BetweenEnvs)
    \/ ServePaginate(Paginate, BetweenRqs, BetweenEnvs)
    \/ ServeAggregate(Aggregate, BetweenRqs, BetweenEnvs)

SpecBetween == InitPage /\ [][NextBetween]_vars

\* the between clauses of the request whose value has two members that are
\* both dates, and the others
WellFormedBetween(filter) ==
    Len(filter.value) = 2 /\ \A k \in 1..2 : ParsesAsTime(filter.value[k])
BadBetween(qs) ==
    {i \in 1..Len(qs) : qs[i].condition = "between" /\ ~WellFormedBetween(qs[i])}

\* C37: a between clause is accepted only when its value has exactly two
\* members that both parse as timestamps; a request with any other between
\* clause fails with status 400 and no query is executed for it.
BetweenNeedsTwoTimes ==
    Done /\ BadBetween(inp.rq.qs) # {} =>
        /\ ret # NoError /\ ret.Code = StatusBadRequest
        /\ StoreEvents(log) = {}


(* ------------------------------------ specification: deep associations *)
\* A relation graph gives every table the sequence of its has-one,
\* belongs-to and has-many relations, each written as the table it leads to;
\* the k-th relation of table t is the field <<t, k>>.  A preload path is a
\* sequence of such fields.
MaxRelations == 2
Tables == {"users", "posts", "tags"}
RelationLists == UNION {[1..n -> Tables] : n \in 0..MaxRelations}
Graphs == [Tables -> RelationLists]

\* getAssociations: `loaded` is passed on with loaded..., so every call
\* appends to the one string loaded[0], kept here as its chunks between the
\* dots; relation.Field.Schema is the schema the relation is declared in.
\* acc holds the preload list, the chunks and the number of calls made.
RECURSIVE getAssociationsFrom(_, _, _, _, _)
RECURSIVE getAssociationsItems(_, _, _, _, _, _)
getAssociationsFrom(graph, prefix, s, idx, acc) ==
    IF idx > Len(graph[s]) THEN acc ELSE
    LET chunks == acc.loaded
        field == Append(prefix, <<s, idx>>)
    IN IF Len(chunks) > 2 /\ chunks[Len(chunks) - 1] = s
       THEN getAssociationsFrom(graph, prefix, s, idx + 1, acc)
       ELSE IF Len(chunks) > 4
       THEN getAssociationsFrom(graph, prefix, s, idx + 1, acc)
       ELSE LET added == [acc EXCEPT !.loaded = Append(chunks, s),
                                     !.preload = Append(@, field)]
                nested == getAssociationsItems(graph, field, s, graph[s][idx], 1, added)
            IN getAssociationsFrom(graph, prefix, s, idx + 1, nested)

\* the loop over relation.FieldSchema.Relationships.Relations: one recursive
\* call on the related schema for each of its relations
getAssociationsItems(graph, prefix, s, related, i, acc) ==
    IF i > Len(graph[related]) THEN acc
    ELSE IF related = s
    THEN getAssociationsItems(graph, prefix, s, related, i + 1, acc)
    ELSE getAssociationsItems(graph, prefix, s, related, i + 1,
             getAssociationsFrom(graph, prefix, related, 1,
                                 [acc EXCEPT !.calls = @ + 1]))

getAssociations(graph, s) ==
    getAssociationsFrom(graph, <<>>, s, 1, [preload |-> <<>>, loaded |-> <<s>>, calls |-> 1])

\* Context.ApplyFilters with associations=deep on the schema of table s
PreloadDeep ==
    /\ pc = "ready"
    /\ \E graph \in Graphs, s \in Tables :
          inp' = [graph |-> graph, table |-> s,
                  preload |-> getAssociations(graph, s).preload,
                  calls |-> getAssociations(graph, s).calls]
    /\ pc' = "done"
    /\ op' = "associations"
    /\ UNCHANGED <<store, pre, ctx, ret, log, pagination, resources, resource,
                   sent, inflight, globals, sql>>

InitDeep == Init /\ store = {}

NextDeep ==
    \/ NewContext
    \/ PreloadDeep

SpecDeep == InitDeep /\ [][NextDeep]_vars

\* the table a field of a path leads to, and the table it is declared in
LeadsTo(graph, field) == graph[field[1]][field[2]]
DeclaredIn(field) == field[1]

\* the path follows the relations of the graph from table s
IsPath(graph, s, path) ==
    /\ Len(path) >= 1 /\ DeclaredIn(path[1]) = s
    /\ \A k \in 1..Len(path) - 1 : DeclaredIn(path[k + 1]) = LeadsTo(graph, path[k])

\* a step of the path leads to the table the step before it left
StepsBack(graph, path) ==
    \E k \in 1..Len(path) - 1 : LeadsTo(graph, path[k + 1]) = DeclaredIn(path[k])

\* C38: deep association discovery ends for every relation graph, cyclic and
\* self-referential ones included (the number of calls is bounded), every
\* preload path it returns has at most 4 segments, and no path steps from a
\* relation back to the table it just came from.
DeepDiscoveryBounded ==
    Done /\ op = "associations" =>
        /\ inp.calls <= 1 + 4 * MaxRelations
        /\ \A k \in 1..Len(inp.preload) :
              /\ IsPath(inp.graph, inp.table, inp.preload[k])
              /\ Len(inp.preload[k]) <= 4
              /\ ~StepsBack(inp.graph, inp.preload[k])


(* ----------------------------------- specification: offset and limit *)
\* Requests that carry offset and limit next to query strings with an
\* unknown column, an unknown operator or a bad between value, on the
\* handlers that build their query with ApplyFilters.
WindowClauses == {Clause("owner", "eq", <<1>>), Clause("nosuch", "eq", <<1>>),
                  Clause("owner", "like", <<1>>), Clause("owner", "between", <<1>>)}
WindowEnvs == {[DefaultEnv EXCEPT !.modelPerm = "allow", !.conds = cs] :
                  cs \in {<<>>, <<OwnerIsOne>>}}
WindowRqs == {[DefaultRq EXCEPT !.qs = q, !.offset = o, !.limit = l, !.unsafe = TRUE,
                                !.body = [ZeroObject EXCEPT !.owner = MaxVal - 1],
                                !.bodies = <<ValidBody>>, !.fields = "id.count"] :
                 q \in SeqsUpTo(WindowClauses, MaxClauses), o \in 0..1, l \in 0..1}

NextWindow ==
    \/ NewContext
    \/ ServeBatchUpdate(BatchUpdate, WindowRqs, WindowEnvs)
    \/ ServeBatchDelete(BatchDelete, WindowRqs, WindowEnvs)
    \/ ServeAll(All, WindowRqs, WindowEnvs)
    \/ ServePaginate(Paginate, WindowRqs, WindowEnvs)
    \/ ServeAggregate(Aggregate, WindowRqs, WindowEnvs)

SpecWindow == InitPage /\ [][NextWindow]_vars

\* the error filterMapper returns for the query string of the request
FilterError == filterMapper(inp.rq.qs, ctx, NewQuery, inp.env).err

\* C39: when the query string does not map onto the query, ApplyFilters
\* returns the error of filterMapper whatever the other parameters are,
\* offset > 0 and limit > 0 included: the handler ends with that error as its
\* response and never faults on a missing query object.
FilterErrorSurvivesWindow ==
    Done /\ FilterError # NoError =>
        /\ ret = FilterError
        /\ ret # ErrorPanic
====
